---- MODULE Spec2Model ----
(***************************************************************************)
(* The instance-selection engine of the round-robin load balancer:         *)
(* RoundRobin.next, WeightedRoundRobin.next, WeightedRoundRobin.HealthCheck *)
(* and RoundRobin.HealthCheck, the latency estimator and the locks around   *)
(* them, as written in loadbalancer/balancer/weightedroundrobin.go (the     *)
(* file holds both balancers).                                             *)
(*                                                                         *)
(* Numbers.  TLC's integers are 32-bit signed, the cursor is a uint32 and   *)
(* the code multiplies in uint64.  A uint32 is therefore kept as the pair   *)
(* <<hi, lo>> of its 16-bit halves (value hi * 2^16 + lo), and every        *)
(* product that could pass 2^31 is computed in pieces that cannot; the      *)
(* results are the exact values the Go code computes.                       *)
(*                                                                         *)
(* Latencies.  ewmaLatency is a float64; the model keeps it as an exact     *)
(* multiple of 1 / LatScale nanoseconds.  The weights of one sweep depend   *)
(* on the ratio of two latencies only, and the float64 result differs from  *)
(* the exact one only when MaxWeight * Lmin / L falls within 1e-10 of a     *)
(* half-integer, which no latency of LatencySamples produces.               *)
(***************************************************************************)
EXTENDS Integers, Sequences, FiniteSets, TLC

\* const MaxWeight = math.MaxUint16
MaxWeight == 65535

\* 2^16: the uint16 range, and the radix of the <<hi, lo>> pairs.
Half == MaxWeight + 1

(***************************************************************************)
(* Bounds of the model.                                                    *)
(***************************************************************************)
\* Number of backend instances of the program model (len(urls) at
\* construction).
NumInstances == 2

Instances == 0 .. (NumInstances - 1)

(***************************************************************************)
(* uint32 arithmetic on <<hi, lo>> pairs.                                  *)
(***************************************************************************)
U32 == (0 .. (Half - 1)) \X (0 .. (Half - 1))

\* The pair of a small natural number (below 2^31).
ToU32(n) == << (n \div Half) % Half, n % Half >>

\* Mutant: the increment carried out of 32 bits instead of wrapping.
AddUint32NoWrap(c) == IF c[2] = Half - 1 THEN << c[1] + 1, 0 >> ELSE << c[1], c[2] + 1 >>

\* Mutant: the cursor read and left as it is.
AddUint32Lost(c) == c

\* atomic.AddUint32(&current, 1): the new value, wrapping at 2^32.
AddUint32(c) == IF c[2] = Half - 1 THEN << (c[1] + 1) % Half, 0 >> ELSE << c[1], c[2] + 1 >>

\* c + k for a small k >= 0, wrapping at 2^32: k increments of the cursor.
RECURSIVE AddK(_, _)
AddK(c, k) == IF k = 0 THEN c ELSE AddK(AddUint32(c), k - 1)

\* next % length, for 1 <= length < 2^14.
U32Mod(c, n) == (((c[1] % n) * (Half % n)) + (c[2] % n)) % n

\* next / length as a pair, by long division on the two halves.
U32Div(c, n) == << c[1] \div n, (((c[1] % n) * Half) + c[2]) \div n >>

\* A uint32 (or the uint64 it was widened to) reduced modulo MaxWeight:
\* 2^16 = 1 modulo 2^16 - 1, so hi * 2^16 + lo = hi + lo.
U32ModMaxWeight(c) == (c[1] + c[2]) % MaxWeight

\* (a * b) % MaxWeight for 0 <= a <= MaxWeight, 0 <= b < MaxWeight, with no
\* intermediate value above 2^26.
MulModMaxWeight(a, b) ==
    ((((a * (b \div 256)) % MaxWeight) * 256) + (a * (b % 256))) % MaxWeight

\* len() of a slice kept as a function on 0 .. len - 1.
Length(f) == Cardinality(DOMAIN f)

(***************************************************************************)
(* One attempt of the selection loops.                                     *)
(***************************************************************************)
\* Mutant: the index taken from the cursor value before the increment.
InstanceIdxOfOld(next, length) ==
    U32Mod(IF next[2] # 0 THEN << next[1], next[2] - 1 >>
           ELSE << (next[1] + Half - 1) % Half, Half - 1 >>, length)

\* instanceIdx := next % length
InstanceIdx(next, length) == U32Mod(next, length)

\* round := next / length
Round(next, length) == U32Div(next, length)

\* mod := (weight * round) % MaxWeight, in uint64: weight < 2^16 and
\* round < 2^32, so the product does not wrap.
Mod(weight, round) == MulModMaxWeight(weight, U32ModMaxWeight(round))

\* Mutants of the weight test: ">=" for ">", and the comparison turned round.
RejectedStrict(weight, round) == Mod(weight, round) >= weight
RejectedSwapped(weight, round) == weight > Mod(weight, round)

\* if mod > weight { continue }
Rejected(weight, round) == Mod(weight, round) > weight

\* Mutant of the loop bound: one attempt too many.
LoopDoneOffByOne(i, length) == i > length

\* for i := 0; i < length; i++: the loop ends without an instance.
LoopDone(i, length) == i >= length

\* Mutant: the flag is not consulted.
IsAliveAlways(al, instanceIdx) == TRUE

\* RRInstanceImpl.IsAlive on the flags al.
IsAlive(al, instanceIdx) == al[instanceIdx]

ErrNone == "nil"
ErrWeightEmpty == "weight list is empty"
ErrInstanceEmpty == "instance list is empty"
ErrNoAlive == "failed to find any alive instance"

(***************************************************************************)
(* RoundRobin.next and WeightedRoundRobin.next run without interleaving:   *)
(* the returned index, the error, the cursor left behind and the cursor    *)
(* values the call drew.                                                   *)
(***************************************************************************)
RECURSIVE RRLoop(_, _, _, _, _)
RRLoop(cur, al, length, i, draws) ==
    IF LoopDone(i, length)
    THEN [idx |-> 0, err |-> ErrNoAlive, current |-> cur, draws |-> draws]
    ELSE LET next == AddUint32(cur)
             instanceIdx == InstanceIdx(next, length)
         IN  IF IsAlive(al, instanceIdx)
             THEN [idx |-> instanceIdx, err |-> ErrNone, current |-> next,
                   draws |-> Append(draws, next)]
             ELSE RRLoop(next, al, length, i + 1, Append(draws, next))

\* Mutant: the empty instance list is not tested for.
RRNextNoEmptyTest(cur, al) == RRLoop(cur, al, Length(al), 0, << >>)

RRNext(cur, al) ==
    IF Length(al) = 0
    THEN [idx |-> 0, err |-> ErrInstanceEmpty, current |-> cur, draws |-> << >>]
    ELSE RRLoop(cur, al, Length(al), 0, << >>)

RECURSIVE WRRLoop(_, _, _, _, _, _)
WRRLoop(cur, w, al, length, i, draws) ==
    IF LoopDone(i, length)
    THEN [idx |-> 0, err |-> ErrNoAlive, current |-> cur, draws |-> draws]
    ELSE LET next == AddUint32(cur)
             instanceIdx == InstanceIdx(next, length)
             weight == w[instanceIdx]
             round == Round(next, length)
         IN  IF Rejected(weight, round)
             THEN WRRLoop(next, w, al, length, i + 1, Append(draws, next))
             ELSE IF ~IsAlive(al, instanceIdx)
             THEN WRRLoop(next, w, al, length, i + 1, Append(draws, next))
             ELSE [idx |-> instanceIdx, err |-> ErrNone, current |-> next,
                   draws |-> Append(draws, next)]

WRRNext(cur, w, al) ==
    IF Length(w) = 0
    THEN [idx |-> 0, err |-> ErrWeightEmpty, current |-> cur, draws |-> << >>]
    ELSE WRRLoop(cur, w, al, Length(w), 0, << >>)

(***************************************************************************)
(* The latency estimator and the weight table of a health-check sweep.     *)
(***************************************************************************)
\* Requests served in one run of the program model; every served request
\* feeds one observation to one estimator.
MaxRequests == 3

\* Latency estimates are kept in units of 1 / LatScale ns: every update
\* divides by 10 once, so MaxRequests updates stay exact.
LatScale == 10 ^ MaxRequests

\* ewmaLatency: 1 at construction.
InitialLatency == 1 * LatScale

\* The constructors.  An address is kept as whether url.Parse accepts it;
\* the returned pointer is a sequence, empty for nil.
ErrUrlsEmpty == "the input url list is empty"
ErrUrlParse == "parse error"

\* NewRoundRobin(urls, ...): nil and an error for an empty list or an
\* address that does not parse; otherwise the balancer, every instance
\* alive and the cursor 0.
NewRoundRobin(urls) ==
    IF Len(urls) = 0
    THEN [balancer |-> << >>, err |-> ErrUrlsEmpty]
    ELSE IF \E k \in 1 .. Len(urls) : urls[k] = "unparsable"
    THEN [balancer |-> << >>, err |-> ErrUrlParse]
    ELSE [balancer |-> << [alive |-> [i \in 0 .. (Len(urls) - 1) |-> TRUE],
                           current |-> ToU32(0)] >>,
          err |-> ErrNone]

\* NewWeightedRoundRobin(urls, ...): the same, with every latency estimate
\* 1 and no weight table yet.
NewWeightedRoundRobin(urls) ==
    IF Len(urls) = 0
    THEN [balancer |-> << >>, err |-> ErrUrlsEmpty]
    ELSE IF \E k \in 1 .. Len(urls) : urls[k] = "unparsable"
    THEN [balancer |-> << >>, err |-> ErrUrlParse]
    ELSE [balancer |-> << [alive |-> [i \in 0 .. (Len(urls) - 1) |-> TRUE],
                        ewmaLatency |-> [i \in 0 .. (Len(urls) - 1) |-> InitialLatency],
                        weights |-> << >>,
                        current |-> ToU32(0)] >>,
          err |-> ErrNone]

\* Response times fed to SetEWMALatency, in ns: 100 ns and 0.2 ms.
LatencySamples == { 100, 200000 }

\* i.ewmaLatency = i.alpha*newLatencyFloat + (1-i.alpha)*i.ewmaLatency with
\* alpha = 0.7, written so that no intermediate value passes 2^31.
EWMA(ewmaLatency, newLatency) ==
    (7 * newLatency * (LatScale \div 10)) + (3 * (ewmaLatency \div 10))

\* << q, r >> with m * a = q * b + r and 0 <= r < b, for 0 <= a <= b < 2^31,
\* by binary long multiplication; no intermediate value passes b.
RECURSIVE MulDivMod(_, _, _)
MulDivMod(m, a, b) ==
    IF m = 0 THEN << 0, 0 >>
    ELSE LET h == MulDivMod(m \div 2, a, b)
             d == IF h[2] >= b - h[2]
                  THEN << (2 * h[1]) + 1, h[2] - (b - h[2]) >>
                  ELSE << 2 * h[1], 2 * h[2] >>
         IN  IF m % 2 = 0 THEN d
             ELSE IF d[2] >= b - a
                  THEN << d[1] + 1, d[2] - (b - a) >>
                  ELSE << d[1], d[2] + a >>

\* Mutant: the product truncated instead of rounded.
RoundScaledTruncates(lmin, lat) == MulDivMod(MaxWeight, lmin, lat)[1]

\* math.Round(scalingFactor * w) for an alive instance of latency lat, lmin
\* the smallest latency of the alive instances: w = 1 / lat and
\* scalingFactor = MaxWeight / (1 / lmin), so the product is
\* MaxWeight * lmin / lat, rounded half away from zero.
RoundScaled(lmin, lat) ==
    LET qr == MulDivMod(MaxWeight, lmin, lat)
    IN  IF qr[2] >= lat - qr[2] THEN qr[1] + 1 ELSE qr[1]

\* The smallest latency among the scores of the alive instances: the
\* instance of "max" in HealthCheck.  A score weights[i] = 1 / latency is
\* kept as its latency; 0 stands for the score 0 of a dead instance.
MinLatency(scores) ==
    LET alivelat == { scores[i] : i \in { j \in DOMAIN scores : scores[j] # 0 } }
    IN  CHOOSE l \in alivelat : \A k \in alivelat : l <= k

\* uint16(math.Round(NaN)): with no instance alive max is 0, scalingFactor
\* is +Inf and +Inf * 0 is NaN.  Go leaves the conversion of a NaN to an
\* integer type implementation-dependent: 0 on amd64 and arm64, the low 16
\* bits of the saturated result (65535) on others.
NaNToUint16 == { 0, MaxWeight }

\* Mutant: the scores are scaled to half the range.
ScaledWeightsHalved(scores, nan) ==
    IF \A i \in DOMAIN scores : scores[i] = 0
    THEN [i \in DOMAIN scores |-> nan]
    ELSE [i \in DOMAIN scores |->
            IF scores[i] = 0 THEN 0
            ELSE RoundScaled(MinLatency(scores), scores[i]) \div 2]

\* scaledWeights of HealthCheck, from the scores; nan is what this build
\* converts a NaN to.
ScaledWeights(scores, nan) ==
    IF \A i \in DOMAIN scores : scores[i] = 0
    THEN [i \in DOMAIN scores |-> nan]
    ELSE [i \in DOMAIN scores |->
            IF scores[i] = 0 THEN 0 ELSE RoundScaled(MinLatency(scores), scores[i])]

(***************************************************************************)
(* State.                                                                  *)
(***************************************************************************)
VARIABLES
    kind,          \* the balancer main() built: "rr" (NewRoundRobin) or "wrr"
    rrCurrent,     \* RoundRobin.current
    rrAlive,       \* RoundRobin.instances[i].alive
    wrrCurrent,    \* WeightedRoundRobin.current
    wrrAlive,      \* WeightedRoundRobin.instances[i].alive
    weights,       \* WeightedRoundRobin.weights
    ewmaLatency,   \* WeightedRoundRobin.instances[i].ewmaLatency
    nanAs,         \* what uint16(NaN) yields in this build
    mu,            \* WeightedRoundRobin.mu: readers, writer, writer waiting
    req,           \* the request goroutines: place in ServeHTTP/next, locals
    hc,            \* the health-check goroutine: place in HealthCheck, locals
    sched,         \* LoadBalancerServer: the scheduler goroutine, context, ticker
    started,       \* requests accepted so far
    drawn,         \* history: the cursor at construction and the values drawn
    seq,           \* the sequential harness: calls made and their results
    acc,           \* the acceptance count: rounds tried, draws accepted per weight
    ewmaCalls,     \* the instances' latency locks and the SetEWMALatency calls
    aliveMu,       \* RRInstanceImpl.mu of the instances: readers, writer
    server         \* LoadBalancerServer under repeated Start() and Close()

vars == << kind, rrCurrent, rrAlive, wrrCurrent, wrrAlive, weights, ewmaLatency,
           nanAs, mu, req, hc, sched, started, drawn, seq, acc, ewmaCalls, aliveMu, server >>

\* The request goroutines serving concurrently.
Threads == { "g1", "g2" }

\* The weight table and the alive flags a call found when it took the read
\* lock (history); none outside the locked section.
NoSnapshot == [weights |-> << >>, alive |-> << >>]

\* A request goroutine outside ServeHTTP.  dead, seen and snap are history:
\* the instances whose flag has been false since the call began, the flag
\* value the call read last, and the table and flags the call began with.
ReqIdle ==
    [pc |-> "idle", length |-> 0, i |-> 0, next |-> << 0, 0 >>, idx |-> 0,
     err |-> ErrNone, dead |-> {}, seen |-> FALSE, snap |-> NoSnapshot]

\* No instance has been probed in the sweep yet.
NotProbed == [i \in Instances |-> "not probed"]

\* What CheckAliveness() returned, as kept in probed.
Probed(alive) == IF alive THEN "alive" ELSE "dead"

\* The health-check goroutine between two ticks.  quiet, prev and probed
\* are history: no latency estimate has changed since the last tick; the
\* weight table, the alive flags and quiet as the last tick found them;
\* what the probe of each instance returned in the latest sweep.
HcIdle ==
    [pc |-> "idle", i |-> 0, scores |-> << >>, sweeps |-> 0, quiet |-> TRUE,
     prev |-> [weights |-> << >>, alive |-> << >>, quiet |-> FALSE],
     probed |-> NotProbed]

\* LoadBalancerServer before Start(): no context, no goroutine, no ticker.
\* running and late are history: the HealthCheck() activations in progress,
\* and whether one began after the context was cancelled.
SchedOff ==
    [pc |-> "off", ctx |-> "none", ticker |-> "none", tick |-> FALSE,
     running |-> 0, late |-> FALSE]

\* No attempt has drawn a cursor value yet; vals are the values drawn and n
\* the number of attempts that drew one.
NoneDrawn(current) == [init |-> current, vals |-> {}, n |-> 0]

\* One more attempt has drawn the cursor value next.
Draw(next) == [drawn EXCEPT !.vals = @ \cup { next }, !.n = @ + 1]

\* No SetEWMALatency call is in progress and every instance's latency lock
\* (WRRInstanceImpl.mu) is free.  fed is history: the observations written
\* to each instance's estimate, in the order of the writes.
LatIdle ==
    [mu |-> [i \in Instances |-> "free"],
     call |-> [t \in Threads |->
                 [pc |-> "idle", idx |-> 0, newLatency |-> 0, old |-> 0]],
     calls |-> 0,
     fed |-> [i \in Instances |-> << >>]]

\* Start() calls in one run of SpecServer.
MaxStarts == 3

\* The goroutine a Start() call is still to start.
NoGoroutine == [pc |-> "none", ctx |-> "none", tick |-> FALSE]

\* NewLoadBalancerServer: stopHealthCheck is nil (0), no Start() has been
\* called.  goroutine[k] is the goroutine of the k-th Start(): its place,
\* its context and whether its ticker's channel holds a tick.
ServerNew ==
    [stopHealthCheck |-> 0, starts |-> 0,
     goroutine |-> [k \in 1 .. MaxStarts |-> NoGoroutine]]

\* No goroutine holds the lock on an instance's alive flag.
AliveMuFree == [i \in Instances |-> [readers |-> {}, writer |-> FALSE]]

\* The goroutines and locks at rest (specifications that run no goroutine).
ProgramIdle ==
    /\ kind = "both"
    /\ ewmaLatency = [i \in Instances |-> InitialLatency]
    /\ nanAs = 0
    /\ mu = [readers |-> {}, writer |-> FALSE, waiting |-> FALSE]
    /\ req = [t \in Threads |-> ReqIdle]
    /\ hc = HcIdle
    /\ sched = SchedOff
    /\ started = 0
    /\ drawn = NoneDrawn(<< 0, 0 >>)
    /\ ewmaCalls = LatIdle
    /\ aliveMu = AliveMuFree
    /\ server = ServerNew

progVars == << kind, ewmaLatency, nanAs, mu, req, hc, sched, started, drawn,
              ewmaCalls, aliveMu, server >>

\* The acceptance count at rest (specifications that do not use it).
AccIdle == acc = [round |-> << 0, 0 >>, steps |-> 0, count |-> << >>]

(***************************************************************************)
(* SpecSeq: next() of both balancers called one call after another, with   *)
(* no sweep in between, from the same cursor and the same alive flags.     *)
(* The inputs are those of the table-driven tests (TestRoundRobinNext,     *)
(* TestWeightedRoundRobinNext), which build the balancer value directly:   *)
(* any cursor, any alive flags, any weight table.                          *)
(***************************************************************************)
\* Calls made in one run of the harness.
MaxCalls == 6

\* Instances of the balancers the harness builds: none (the tests' empty
\* balancer) up to this many.
MaxSeqInstances == 3

\* Cursor values a run starts from: the constructor's 0, the tests' 30 and
\* 300, and the last values before the uint32 wraps.
CursorStarts ==
    { ToU32(0), ToU32(30), ToU32(300), << Half - 1, Half - 3 >>, << Half - 1, Half - 2 >> }

\* Entries of the weight tables a run starts from.
WeightSamples == { 0, 20000, MaxWeight }

SeqInit ==
    /\ rrCurrent \in CursorStarts
    /\ wrrCurrent = rrCurrent
    /\ \E n \in 0 .. MaxSeqInstances :
           /\ rrAlive \in [0 .. (n - 1) -> BOOLEAN]
           /\ weights \in [0 .. (n - 1) -> WeightSamples]
    /\ wrrAlive = rrAlive
    /\ seq = [calls |-> 0, rr |-> << >>, wrr |-> << >>]
    /\ AccIdle
    /\ ProgramIdle

\* One next() call on each balancer.
SeqNext ==
    /\ seq.calls < MaxCalls
    /\ LET r == RRNext(rrCurrent, rrAlive)
           w == WRRNext(wrrCurrent, weights, wrrAlive)
       IN  /\ rrCurrent' = r.current
           /\ wrrCurrent' = w.current
           /\ seq' = [calls |-> seq.calls + 1,
                      rr |-> Append(seq.rr, [start |-> rrCurrent, res |-> r]),
                      wrr |-> Append(seq.wrr, [start |-> wrrCurrent, res |-> w])]
    /\ UNCHANGED << rrAlive, wrrAlive, weights, acc, progVars >>

SpecSeq == SeqInit /\ [][SeqNext]_vars

(***************************************************************************)
(* Claims on sequential selection (SpecSeq).                               *)
(***************************************************************************)
AllAlive(al) == \A i \in DOMAIN al : al[i]
AllDead(al) == \A i \in DOMAIN al : ~al[i]

\* Calls k in a .. b of the history s that returned index i.
Returned(s, a, b, i) ==
    Cardinality({ k \in a .. b : s[k].res.err = ErrNone /\ s[k].res.idx = i })

\* C1: with every instance alive, any k * N consecutive RoundRobin.next()
\* calls return each index 0 .. N-1 exactly k times, whatever the value of
\* the 32-bit cursor they start from.
C1_RoundRobinEven ==
    (AllAlive(rrAlive) /\ Length(rrAlive) >= 1) =>
        \A a \in 1 .. Len(seq.rr) : \A k \in 1 .. MaxCalls :
            (a + (k * Length(rrAlive)) - 1 <= Len(seq.rr)) =>
                \A i \in DOMAIN rrAlive :
                    Returned(seq.rr, a, a + (k * Length(rrAlive)) - 1, i) = k

\* C3: with every instance dead, next() of either balancer (the weight
\* table not empty) returns "failed to find any alive instance" after
\* exactly N attempts: the call drew N cursor values and left the cursor N
\* further.
C3_AllDeadBounded ==
    /\ (AllDead(rrAlive) /\ Length(rrAlive) > 0) =>
          \A k \in 1 .. Len(seq.rr) :
              /\ seq.rr[k].res.err = ErrNoAlive
              /\ Len(seq.rr[k].res.draws) = Length(rrAlive)
              /\ seq.rr[k].res.current = AddK(seq.rr[k].start, Length(rrAlive))
    /\ (AllDead(wrrAlive) /\ Length(weights) > 0) =>
          \A k \in 1 .. Len(seq.wrr) :
              /\ seq.wrr[k].res.err = ErrNoAlive
              /\ Len(seq.wrr[k].res.draws) = Length(weights)
              /\ seq.wrr[k].res.current = AddK(seq.wrr[k].start, Length(weights))

\* Both balancers have failed on all-dead instances, the weighted one with
\* weights that would accept draws.
C3_Witness ==
    /\ AllDead(rrAlive) /\ AllDead(wrrAlive)
    /\ Length(weights) = 3
    /\ \A i \in DOMAIN weights : weights[i] = MaxWeight
    /\ seq.calls >= 2
    /\ seq.rr[2].res.err = ErrNoAlive /\ seq.wrr[2].res.err = ErrNoAlive

\* The acceptance rule of C5 at cursor value c: the weight test passes and
\* the instance is alive.
C5_Accepts(w, al, c) ==
    LET n == Length(w)
        x == U32Mod(c, n)
    IN  /\ MulModMaxWeight(w[x], U32ModMaxWeight(U32Div(c, n))) <= w[x]
        /\ al[x]

\* C5: a sequential WeightedRoundRobin.next() call starting at cursor c
\* returns c' mod N for the first cursor value c' among c+1 .. c+N (as
\* 32-bit values) with (weights[c' mod N] * (c' div N)) mod MaxWeight <=
\* weights[c' mod N] and instance c' mod N alive, and leaves the cursor at
\* c'; each rejected or dead draw consumes one cursor value.
C5_WeightedAcceptanceRule ==
    \A k \in 1 .. Len(seq.wrr) :
        LET c == seq.wrr[k].start
            r == seq.wrr[k].res
            n == Length(weights)
            good == { j \in 1 .. n : C5_Accepts(weights, wrrAlive, AddK(c, j)) }
        IN  \A j \in good :
                (\A h \in good : j <= h) =>
                    /\ r.err = ErrNone
                    /\ r.idx = U32Mod(AddK(c, j), n)
                    /\ r.current = AddK(c, j)
                    /\ Len(r.draws) = j

\* A call whose first draw was rejected by the weight test on an alive
\* instance and whose second draw was returned.
C5_Witness ==
    /\ seq.calls >= 1
    /\ LET c == seq.wrr[1].start
           r == seq.wrr[1].res
           first == U32Mod(AddK(c, 1), Length(weights))
       IN  /\ r.err = ErrNone
           /\ Len(r.draws) = 2
           /\ wrrAlive[first]
           /\ weights[first] = 20000
           /\ weights[r.idx] = MaxWeight

\* C6: a draw of WeightedRoundRobin.next() that lands on an alive instance
\* of weight MaxWeight is returned, at every cursor value and round and
\* whatever the other weights: it is the last draw of its call and the call
\* returns that instance.
C6_MaxWeightAccepted ==
    \A k \in 1 .. Len(seq.wrr) :
        LET r == seq.wrr[k].res
        IN  \A j \in 1 .. Len(r.draws) :
                LET x == U32Mod(r.draws[j], Length(weights))
                IN  (weights[x] = MaxWeight /\ wrrAlive[x]) =>
                        (j = Len(r.draws) /\ r.err = ErrNone /\ r.idx = x)

\* A maximum-weight instance was returned at a round other than 0, next to
\* instances of other weights, after an earlier draw of the call failed.
C6_Witness ==
    /\ seq.calls >= 1
    /\ LET r == seq.wrr[1].res
       IN  /\ r.err = ErrNone
           /\ weights[r.idx] = MaxWeight
           /\ Len(r.draws) >= 2
           /\ U32Div(r.current, Length(weights)) # << 0, 0 >>
           /\ \E i \in DOMAIN weights : weights[i] = 20000

\* C7: with every weight equal to MaxWeight, WeightedRoundRobin.next() and
\* RoundRobin.next(), started from the same cursor and alive flags, return
\* the same index or error and leave the same cursor after every sequence
\* of calls.
C7_EqualMaxWeightsIsRoundRobin ==
    (Length(weights) >= 1 /\ \A i \in DOMAIN weights : weights[i] = MaxWeight) =>
        /\ wrrCurrent = rrCurrent
        /\ Len(seq.wrr) = Len(seq.rr)
        /\ \A k \in 1 .. Len(seq.wrr) :
               /\ seq.wrr[k].res.idx = seq.rr[k].res.idx
               /\ seq.wrr[k].res.err = seq.rr[k].res.err
               /\ seq.wrr[k].res.current = seq.rr[k].res.current

\* Several calls were made at equal maximum weights with a dead instance
\* skipped on the way.
C7_Witness ==
    /\ Length(weights) = 3
    /\ \A i \in DOMAIN weights : weights[i] = MaxWeight
    /\ seq.calls >= 3
    /\ ~AllAlive(wrrAlive) /\ ~AllDead(wrrAlive)
    /\ \E k \in 1 .. Len(seq.wrr) :
           seq.wrr[k].res.err = ErrNone /\ Len(seq.wrr[k].res.draws) >= 2

\* (c + k) mod 2^32 for a small k >= 0, on the two halves.
C18_Plus(c, k) == << (c[1] + ((c[2] + k) \div Half)) % Half, (c[2] + k) % Half >>

\* c mod n for 1 <= n <= 256, from c = (hi * 256) * 256 + lo.
C18_Mod(c, n) == ((((c[1] * 256) % n) * 256) + c[2]) % n

\* q = c div n: q * n + c mod n = c, multiplied out on the two halves.
C18_IsDiv(q, c, n) ==
    LET low == (q[2] * n) + C18_Mod(c, n)
    IN  /\ low % Half = c[2]
        /\ (q[1] * n) + (low \div Half) = c[1]

\* What C18 says of one call on n >= 1 instances that started at cursor
\* value start and gave result r.
C18_CallOK(start, r, n) ==
    /\ r.err \in { ErrNone, ErrNoAlive }
    /\ Len(r.draws) \in 1 .. n
    /\ r.err = ErrNoAlive => Len(r.draws) = n
    /\ r.current \in U32
    /\ r.current = C18_Plus(start, Len(r.draws))
    /\ \A j \in 1 .. Len(r.draws) : r.draws[j] = C18_Plus(start, j)
    /\ r.err = ErrNone =>
           /\ r.idx \in 0 .. (n - 1)
           /\ r.idx = C18_Mod(r.current, n)

\* C18: from every value of the 32-bit cursor, 2^32 - 1 included, next() of
\* either balancer ends within N attempts, returns an index in 0 .. N-1 or
\* the no-alive-instance error, and leaves the cursor at (old cursor +
\* attempts) mod 2^32; after the wrap the index is still cursor mod N and
\* the round of the weight test still cursor div N.
C18_WraparoundHarmless ==
    /\ \A k \in 1 .. Len(seq.rr) :
           Length(rrAlive) >= 1 =>
               C18_CallOK(seq.rr[k].start, seq.rr[k].res, Length(rrAlive))
    /\ \A k \in 1 .. Len(seq.wrr) :
           Length(weights) >= 1 =>
               LET r == seq.wrr[k].res
                   n == Length(weights)
               IN  /\ C18_CallOK(seq.wrr[k].start, r, n)
                   /\ \A j \in 1 .. Len(r.draws) :
                          C18_IsDiv(Round(r.draws[j], n), r.draws[j], n)
                   /\ r.err = ErrNone =>
                          \E q \in { Round(r.current, n) } :
                              MulModMaxWeight(weights[r.idx], (q[1] + q[2]) % MaxWeight)
                                  <= weights[r.idx]

\* A call of each balancer drew 2^32 - 1 after skipping a dead instance;
\* the next call started at cursor 2^32 - 1, drew 0 and returned index 0.
C18_Witness ==
    /\ Length(rrAlive) = 3 /\ ~AllAlive(rrAlive)
    /\ \E k \in 2 .. Len(seq.rr) :
           /\ seq.rr[k].start = << Half - 1, Half - 1 >>
           /\ seq.rr[k].res.err = ErrNone /\ seq.rr[k].res.idx = 0
           /\ seq.rr[k].res.current = << 0, 0 >>
           /\ seq.wrr[k].start = << Half - 1, Half - 1 >>
           /\ seq.wrr[k].res.err = ErrNone /\ seq.wrr[k].res.current = << 0, 0 >>
           /\ Len(seq.rr[k - 1].res.draws) = 2

\* C20: a sequential RoundRobin.next() call starting at cursor c returns
\* (c+1) mod N and leaves the cursor at c+1 (as a 32-bit value) when that
\* instance is alive; otherwise it returns the first alive instance met at
\* the cursor values c+2 .. c+N, one cursor value consumed per dead
\* instance skipped.  From cursor 30 with N = 3 it returns 1 when all are
\* alive and 2 when instance 1 is dead.
C20_RoundRobinSingleCall ==
    /\ \A k \in 1 .. Len(seq.rr) :
           LET c == seq.rr[k].start
               r == seq.rr[k].res
               n == Length(rrAlive)
               alive == { j \in 1 .. n : rrAlive[C18_Mod(C18_Plus(c, j), n)] }
           IN  \A j \in alive :
                   (\A h \in alive : j <= h) =>
                       /\ r.err = ErrNone
                       /\ r.idx = C18_Mod(C18_Plus(c, j), n)
                       /\ r.current = C18_Plus(c, j)
                       /\ Len(r.draws) = j
    /\ RRNext(ToU32(30), [i \in 0 .. 2 |-> TRUE]).idx = 1
    /\ RRNext(ToU32(30), [i \in 0 .. 2 |-> i # 1]).idx = 2
    /\ RRNext(ToU32(30), [i \in 0 .. 2 |-> i # 1]).current = ToU32(32)

\* From cursor 30 with instance 1 of 3 dead the first call skipped
\* instance 1 and returned 2; the next call returned 0.
C20_Witness ==
    /\ Length(rrAlive) = 3 /\ ~rrAlive[1] /\ rrAlive[2] /\ rrAlive[0]
    /\ seq.calls >= 2
    /\ seq.rr[1].start = ToU32(30)
    /\ seq.rr[1].res.idx = 2 /\ Len(seq.rr[1].res.draws) = 2
    /\ seq.rr[2].res.idx = 0 /\ Len(seq.rr[2].res.draws) = 1

\* Address lists handed to the constructors.
C21_UrlLists ==
    { << >> } \cup { << a >> : a \in { "parsable", "unparsable" } }
        \cup { << a, b >> : a, b \in { "parsable", "unparsable" } }

\* C21: RoundRobin.next() on an empty instance list returns "instance list
\* is empty" and WeightedRoundRobin.next() on an empty weight table returns
\* "weight list is empty", both leaving the cursor as it was; each
\* constructor returns an error and no balancer for an empty address list
\* (and a balancer only with an instance per address).
C21_EmptyBalancerFails ==
    /\ \A k \in 1 .. Len(seq.rr) :
           Length(rrAlive) = 0 =>
               /\ seq.rr[k].res.err = ErrInstanceEmpty
               /\ seq.rr[k].res.current = seq.rr[k].start
               /\ seq.rr[k].res.draws = << >>
               /\ rrCurrent = seq.rr[1].start
    /\ \A k \in 1 .. Len(seq.wrr) :
           Length(weights) = 0 =>
               /\ seq.wrr[k].res.err = ErrWeightEmpty
               /\ seq.wrr[k].res.current = seq.wrr[k].start
               /\ seq.wrr[k].res.draws = << >>
               /\ wrrCurrent = seq.wrr[1].start
    /\ \A urls \in C21_UrlLists :
           /\ (Len(urls) = 0) =>
                  /\ Len(NewRoundRobin(urls).balancer) = 0
                  /\ NewRoundRobin(urls).err = ErrUrlsEmpty
                  /\ Len(NewWeightedRoundRobin(urls).balancer) = 0
                  /\ NewWeightedRoundRobin(urls).err = ErrUrlsEmpty
           /\ (NewRoundRobin(urls).err = ErrNone) =>
                  /\ Len(urls) >= 1
                  /\ Len(NewRoundRobin(urls).balancer) = 1
                  /\ Length(NewRoundRobin(urls).balancer[1].alive) = Len(urls)
           /\ (NewWeightedRoundRobin(urls).err = ErrNone) =>
                  /\ Len(urls) >= 1
                  /\ Len(NewWeightedRoundRobin(urls).balancer) = 1
                  /\ Length(NewWeightedRoundRobin(urls).balancer[1].alive) = Len(urls)
           /\ (NewRoundRobin(urls).err # ErrNone) =>
                  Len(NewRoundRobin(urls).balancer) = 0
           /\ (NewWeightedRoundRobin(urls).err # ErrNone) =>
                  Len(NewWeightedRoundRobin(urls).balancer) = 0

\* Several calls were made on the empty balancers from cursor 300.
C21_Witness ==
    /\ Length(rrAlive) = 0 /\ Length(weights) = 0
    /\ seq.calls >= 3
    /\ seq.rr[3].res.err = ErrInstanceEmpty /\ seq.wrr[3].res.err = ErrWeightEmpty
    /\ rrCurrent = ToU32(300) /\ wrrCurrent = ToU32(300)

(***************************************************************************)
(* SpecAccept: the weight test of WeightedRoundRobin.next() applied to     *)
(* MaxWeight consecutive rounds, for several weights side by side.         *)
(***************************************************************************)
\* Weights whose acceptances are counted.
AcceptWeights == { 0, 1, 20000, 21845, 32768, MaxWeight }

\* The first of the consecutive rounds.
RoundStarts == { ToU32(0), ToU32(100) }

AcceptInit ==
    /\ rrCurrent = ToU32(0) /\ wrrCurrent = ToU32(0)
    /\ rrAlive = [i \in Instances |-> TRUE]
    /\ wrrAlive = [i \in Instances |-> TRUE]
    /\ weights = << >>
    /\ seq = [calls |-> 0, rr |-> << >>, wrr |-> << >>]
    /\ ProgramIdle
    /\ acc \in { [round |-> r, steps |-> 0, count |-> [w \in AcceptWeights |-> 0]] :
                 r \in RoundStarts }

\* The weight test at the next round, for every weight counted.
AcceptStep ==
    /\ acc.steps < MaxWeight
    /\ acc' = [round |-> AddUint32(acc.round),
               steps |-> acc.steps + 1,
               count |-> [w \in AcceptWeights |->
                            IF Rejected(w, acc.round)
                            THEN acc.count[w]
                            ELSE acc.count[w] + 1]]
    /\ UNCHANGED << rrCurrent, rrAlive, wrrCurrent, wrrAlive, weights, seq, progVars >>

SpecAccept == AcceptInit /\ [][AcceptStep]_vars

\* C8: over any MaxWeight consecutive rounds the number of rounds in which
\* (w * round) mod MaxWeight <= w is w, give or take 1, for every weight w
\* in 0 .. MaxWeight, so that the accepted share is w / MaxWeight and does
\* not decrease as w grows.
C8_AcceptanceProportional ==
    (acc.steps = MaxWeight) =>
        /\ \A w \in AcceptWeights :
               acc.count[w] - w <= 1 /\ w - acc.count[w] <= 1
        /\ \A v, w \in AcceptWeights :
               (v <= w) => (acc.count[v] <= acc.count[w])

(***************************************************************************)
(* SpecEWMA: SetEWMALatency called concurrently by the request goroutines  *)
(* on the instances of a new WeightedRoundRobin.  A step is a lock         *)
(* operation or one access to i.ewmaLatency.                               *)
(***************************************************************************)
EWMAInit ==
    /\ rrCurrent = ToU32(0) /\ wrrCurrent = ToU32(0)
    /\ rrAlive = [i \in Instances |-> TRUE]
    /\ wrrAlive = [i \in Instances |-> TRUE]
    /\ weights = << >>
    /\ seq = [calls |-> 0, rr |-> << >>, wrr |-> << >>]
    /\ AccIdle
    /\ ProgramIdle

ewmaVars == << kind, rrCurrent, rrAlive, wrrCurrent, wrrAlive, weights, nanAs, mu,
               req, hc, sched, started, drawn, seq, acc, aliveMu, server >>

\* Mutant: SetEWMALatency does not wait for the lock.
MutexFreeAlways(holder) == TRUE

\* i.mu.Lock() can return: no goroutine holds the lock.
MutexFree(holder) == holder = "free"

\* Goroutine t calls instance idx's SetEWMALatency(newLatency).
SetCall(t, idx, newLatency) ==
    /\ ewmaCalls.call[t].pc = "idle"
    /\ ewmaCalls.calls < MaxRequests
    /\ ewmaCalls' = [ewmaCalls EXCEPT !.call[t] = [pc |-> "lock", idx |-> idx,
                                       newLatency |-> newLatency, old |-> 0],
                          !.calls = @ + 1]
    /\ UNCHANGED << ewmaLatency, ewmaVars >>

\* i.mu.Lock() returns.
SetLock(t) ==
    /\ ewmaCalls.call[t].pc = "lock"
    /\ MutexFree(ewmaCalls.mu[ewmaCalls.call[t].idx])
    /\ ewmaCalls' = [ewmaCalls EXCEPT !.mu[ewmaCalls.call[t].idx] = t, !.call[t].pc = "read"]
    /\ UNCHANGED << ewmaLatency, ewmaVars >>

\* The right-hand side reads i.ewmaLatency.
SetRead(t) ==
    /\ ewmaCalls.call[t].pc = "read"
    /\ ewmaCalls' = [ewmaCalls EXCEPT !.call[t].old = ewmaLatency[ewmaCalls.call[t].idx],
                          !.call[t].pc = "write"]
    /\ UNCHANGED << ewmaLatency, ewmaVars >>

\* i.ewmaLatency = i.alpha*newLatencyFloat + (1-i.alpha)*(the value read).
SetWrite(t) ==
    /\ ewmaCalls.call[t].pc = "write"
    /\ ewmaLatency' = [ewmaLatency EXCEPT ![ewmaCalls.call[t].idx] =
                          EWMA(ewmaCalls.call[t].old, ewmaCalls.call[t].newLatency)]
    /\ ewmaCalls' = [ewmaCalls EXCEPT
                        !.fed[ewmaCalls.call[t].idx] = Append(@, ewmaCalls.call[t].newLatency),
                        !.call[t].pc = "unlock"]
    /\ UNCHANGED ewmaVars

\* The deferred i.mu.Unlock().
SetUnlock(t) ==
    /\ ewmaCalls.call[t].pc = "unlock"
    /\ ewmaCalls' = [ewmaCalls EXCEPT !.mu[ewmaCalls.call[t].idx] = "free",
                          !.call[t] = LatIdle.call[t]]
    /\ UNCHANGED << ewmaLatency, ewmaVars >>

EWMANext ==
    \/ \E t \in Threads : \E idx \in Instances : \E newLatency \in LatencySamples :
           SetCall(t, idx, newLatency)
    \/ \E t \in Threads : SetLock(t)
    \/ \E t \in Threads : SetRead(t)
    \/ \E t \in Threads : SetWrite(t)
    \/ \E t \in Threads : SetUnlock(t)

SpecEWMA == EWMAInit /\ [][EWMANext]_vars

\* The estimate after the observations xs, applied to e one after another.
RECURSIVE C24_Applied(_, _)
C24_Applied(e, xs) ==
    IF Len(xs) = 0 THEN e
    ELSE C24_Applied((7 * xs[1] * (LatScale \div 10))
                         + (3 * (e \div 10)) + ((3 * (e % 10)) \div 10),
                     Tail(xs))

\* C24: every SetEWMALatency(x) replaces the estimate e of its instance by
\* 0.7 x + 0.3 e, from the estimate 1 of the constructor on (a first
\* observation of 100 gives 70.3), and concurrent calls on one instance
\* take effect one after another, none lost: the estimate is always the
\* result of applying the observations written so far in their order, and
\* the value a call has read is still the instance's estimate when the
\* call writes.
C24_EWMAUpdates ==
    /\ \A i \in Instances :
           /\ ewmaLatency[i] = C24_Applied(InitialLatency, ewmaCalls.fed[i])
           /\ (Len(ewmaCalls.fed[i]) = 1 /\ ewmaCalls.fed[i][1] = 100) =>
                  10 * ewmaLatency[i] = 703 * LatScale
    /\ \A t \in Threads :
           (ewmaCalls.call[t].pc = "write") =>
               ewmaCalls.call[t].old = ewmaLatency[ewmaCalls.call[t].idx]
    /\ \A t, u \in Threads :
           (/\ t # u
            /\ ewmaCalls.call[t].pc \in { "read", "write", "unlock" }
            /\ ewmaCalls.call[u].pc \in { "read", "write", "unlock" }) =>
               ewmaCalls.call[t].idx # ewmaCalls.call[u].idx

\* Both goroutines have called SetEWMALatency on the first instance at the
\* same time, one waits for the lock the other holds, and the estimate has
\* taken two observations.
C24_Witness ==
    /\ ewmaCalls.call["g1"].pc = "lock" /\ ewmaCalls.call["g1"].idx = 0
    /\ ewmaCalls.call["g2"].pc = "unlock" /\ ewmaCalls.call["g2"].idx = 0
    /\ ewmaCalls.fed[0] = << 100, 200000 >>

(***************************************************************************)
(* Spec: the program while it serves.  main() builds one balancer and      *)
(* calls Start(); request goroutines run ServeHTTP concurrently; the       *)
(* health-check goroutine runs one sweep per tick.  (main() calls Close()  *)
(* only once ListenAndServe has returned: SpecSched below.)  A step is one *)
(* access to shared state (an atomic add, a lock operation, a flag or      *)
(* latency access under its instance lock) together with the               *)
(* goroutine-local code around it.                                         *)
(***************************************************************************)
\* Ticks of the health-check timer in one run.
MaxSweeps == 3

\* Cursor values a RoundRobin run starts from: the constructor's 0 and,
\* after 2^32 - 2 earlier attempts, the last value before the wrap.
RRCursorStarts == { ToU32(0), << Half - 1, Half - 2 >> }

Init ==
    /\ kind \in { "rr", "wrr" }
    /\ rrCurrent \in (IF kind = "rr" THEN RRCursorStarts ELSE { ToU32(0) })
    /\ wrrCurrent = ToU32(0)
    /\ rrAlive = [i \in Instances |-> TRUE]
    /\ wrrAlive = [i \in Instances |-> TRUE]
    /\ weights = << >>
    /\ ewmaLatency = [i \in Instances |-> InitialLatency]
    /\ nanAs \in (IF kind = "wrr" THEN NaNToUint16 ELSE { 0 })
    /\ mu = [readers |-> {}, writer |-> FALSE, waiting |-> FALSE]
    /\ req = [t \in Threads |-> ReqIdle]
    /\ hc = HcIdle
    /\ sched = SchedOff
    /\ started = 0
    /\ drawn = NoneDrawn(IF kind = "rr" THEN rrCurrent ELSE wrrCurrent)
    /\ seq = [calls |-> 0, rr |-> << >>, wrr |-> << >>]
    /\ AccIdle
    /\ ewmaCalls = LatIdle
    /\ aliveMu = AliveMuFree
    /\ server = ServerNew

harness == << seq, acc, ewmaCalls, aliveMu, server >>

\* The instances dead in the flags al.
DeadIn(al) == { i \in DOMAIN al : ~al[i] }

\* A request arrives (main() listens once Start() has returned): ServeHTTP
\* calls next().
Arrive(t) ==
    /\ req[t].pc = "idle"
    /\ sched.ctx # "none"
    /\ started < MaxRequests
    /\ started' = started + 1
    /\ req' = [req EXCEPT ![t] = [ReqIdle EXCEPT !.pc = "next"]]
    /\ UNCHANGED << kind, rrCurrent, rrAlive, wrrCurrent, wrrAlive, weights,
                    ewmaLatency, nanAs, mu, hc, sched,
                    drawn, harness >>

(************************ WeightedRoundRobin.next *************************)
\* Mutant: only a successful probe is recorded.
SetAliveOnSuccess(al, i, alive) == IF alive THEN [al EXCEPT ![i] = TRUE] ELSE al

\* Instance i's SetAlive(alive): i.mu.Lock(), i.alive = alive, i.mu.Unlock().
SetAlive(al, i, alive) == [al EXCEPT ![i] = alive]

\* Mutant: the read lock is not taken.
RLockFreeAlways(m) == TRUE

\* wrr.mu.RLock() can return: no writer holds the lock and none awaits it.
RLockFree(m) == ~m.writer /\ ~m.waiting

\* Mutant: next() does not test for an empty table.
EmptyNever(length) == FALSE

\* if length == 0 in next().
Empty(length) == length = 0

\* wrr.mu.RLock(), which waits while a writer holds or awaits the lock;
\* length := len(wrr.weights); the empty-table return.
WRRLock(t) ==
    /\ kind = "wrr" /\ req[t].pc = "next"
    /\ RLockFree(mu)
    /\ mu' = [mu EXCEPT !.readers = @ \cup { t }]
    /\ req' = [req EXCEPT ![t] =
                 IF Empty(Length(weights))
                 THEN [@ EXCEPT !.pc = "unlock", !.err = ErrWeightEmpty,
                                !.snap = [weights |-> weights, alive |-> wrrAlive]]
                 ELSE [@ EXCEPT !.pc = "add", !.length = Length(weights), !.i = 0,
                                !.dead = DeadIn(wrrAlive),
                                !.snap = [weights |-> weights, alive |-> wrrAlive]]]
    /\ UNCHANGED << kind, rrCurrent, rrAlive, wrrCurrent, wrrAlive, weights,
                    ewmaLatency, nanAs, hc, started, sched,
                    drawn, harness >>

\* The loop condition, then next := atomic.AddUint32(&wrr.current, 1).
WRRAdd(t) ==
    /\ kind = "wrr" /\ req[t].pc = "add"
    /\ IF LoopDone(req[t].i, req[t].length)
       THEN /\ req' = [req EXCEPT ![t].pc = "unlock", ![t].idx = 0,
                                  ![t].err = ErrNoAlive]
            /\ UNCHANGED << wrrCurrent, drawn >>
       ELSE /\ wrrCurrent' = AddUint32(wrrCurrent)
            /\ req' = [req EXCEPT ![t].pc = "test", ![t].next = AddUint32(wrrCurrent)]
            /\ drawn' = Draw(AddUint32(wrrCurrent))
    /\ UNCHANGED << kind, rrCurrent, rrAlive, wrrAlive, weights, ewmaLatency,
                    nanAs, mu, hc, started, sched,
                    harness >>

\* The weight test and the IsAlive test of one attempt.
WRRTest(t) ==
    /\ kind = "wrr" /\ req[t].pc = "test"
    /\ LET instanceIdx == InstanceIdx(req[t].next, req[t].length)
           weight == weights[instanceIdx]
           round == Round(req[t].next, req[t].length)
       IN  IF Rejected(weight, round)
           THEN req' = [req EXCEPT ![t].pc = "add", ![t].i = @ + 1]
           ELSE IF ~IsAlive(wrrAlive, instanceIdx)
           THEN req' = [req EXCEPT ![t].pc = "add", ![t].i = @ + 1,
                                   ![t].seen = wrrAlive[instanceIdx]]
           ELSE req' = [req EXCEPT ![t].pc = "unlock", ![t].idx = instanceIdx,
                                   ![t].err = ErrNone,
                                   ![t].seen = wrrAlive[instanceIdx]]
    /\ UNCHANGED << kind, rrCurrent, rrAlive, wrrCurrent, wrrAlive, weights,
                    ewmaLatency, nanAs, mu, hc, started, sched,
                    drawn, harness >>

\* Mutant: ServeHTTP does not return after answering the error.
DispatchAlwaysForwards(err) == "forward"

\* if err != nil in ServeHTTP: the error is answered with
\* StatusServiceUnavailable, an index is forwarded to.
Dispatch(err) == IF err = ErrNone THEN "forward" ELSE "unavailable"

\* Mutant: next() has no deferred RUnlock().
RUnlockForgotten(m, t) == m

\* wrr.mu.RUnlock() by goroutine t.
RUnlock(m, t) == [m EXCEPT !.readers = @ \ { t }]

\* The deferred wrr.mu.RUnlock(); back in ServeHTTP the error is answered
\* with StatusServiceUnavailable, an index is forwarded to.
WRRUnlock(t) ==
    /\ kind = "wrr" /\ req[t].pc = "unlock"
    /\ mu' = RUnlock(mu, t)
    /\ req' = [req EXCEPT ![t].pc = Dispatch(req[t].err),
                           ![t].snap = NoSnapshot]
    /\ UNCHANGED << kind, rrCurrent, rrAlive, wrrCurrent, wrrAlive, weights,
                    ewmaLatency, nanAs, hc, started, sched,
                    drawn, harness >>

\* Mutant: the estimate is kept by the balancer, one for all instances.
SetEWMALatencyShared(lat, idx, newLatency) ==
    [i \in DOMAIN lat |-> EWMA(lat[idx], newLatency)]

\* instance idx's SetEWMALatency(newLatency): i.mu.Lock(), the update of
\* i.ewmaLatency, i.mu.Unlock().
SetEWMALatency(lat, idx, newLatency) == [lat EXCEPT ![idx] = EWMA(@, newLatency)]

\* wrr.instances[next].ServeHTTP returns after newLatency ns;
\* SetEWMALatency(responseTime) under the instance's latency lock.
WRRServed(t, newLatency) ==
    /\ kind = "wrr" /\ req[t].pc = "forward"
    /\ ewmaLatency' = SetEWMALatency(ewmaLatency, req[t].idx, newLatency)
    /\ req' = [req EXCEPT ![t] = ReqIdle]
    /\ hc' = [hc EXCEPT !.quiet = FALSE]
    /\ UNCHANGED << kind, rrCurrent, rrAlive, wrrCurrent, wrrAlive, weights,
                    nanAs, mu, started, sched,
                    drawn, harness >>

(**************************** RoundRobin.next *****************************)
\* length := len(rr.instances); the empty-list return.
RRStart(t) ==
    /\ kind = "rr" /\ req[t].pc = "next"
    /\ req' = [req EXCEPT ![t] =
                 IF Length(rrAlive) = 0
                 THEN [@ EXCEPT !.pc = "unavailable", !.err = ErrInstanceEmpty]
                 ELSE [@ EXCEPT !.pc = "add", !.length = Length(rrAlive), !.i = 0,
                                !.dead = DeadIn(rrAlive)]]
    /\ UNCHANGED << kind, rrCurrent, rrAlive, wrrCurrent, wrrAlive, weights,
                    ewmaLatency, nanAs, mu, hc, started, sched,
                    drawn, harness >>

\* The loop condition, then next := atomic.AddUint32(&rr.current, 1).
RRAdd(t) ==
    /\ kind = "rr" /\ req[t].pc = "add"
    /\ IF LoopDone(req[t].i, req[t].length)
       THEN /\ req' = [req EXCEPT ![t].pc = "unavailable", ![t].idx = 0,
                                  ![t].err = ErrNoAlive]
            /\ UNCHANGED << rrCurrent, drawn >>
       ELSE /\ rrCurrent' = AddUint32(rrCurrent)
            /\ req' = [req EXCEPT ![t].pc = "test", ![t].next = AddUint32(rrCurrent)]
            /\ drawn' = Draw(AddUint32(rrCurrent))
    /\ UNCHANGED << kind, rrAlive, wrrCurrent, wrrAlive, weights, ewmaLatency,
                    nanAs, mu, hc, started, sched,
                    harness >>

\* rr.instances[instanceIdx].IsAlive(), under the instance lock.
RRTest(t) ==
    /\ kind = "rr" /\ req[t].pc = "test"
    /\ LET instanceIdx == InstanceIdx(req[t].next, req[t].length)
       IN  IF IsAlive(rrAlive, instanceIdx)
           THEN req' = [req EXCEPT ![t].pc = "forward", ![t].idx = instanceIdx,
                                   ![t].err = ErrNone,
                                   ![t].seen = rrAlive[instanceIdx]]
           ELSE req' = [req EXCEPT ![t].pc = "add", ![t].i = @ + 1,
                                   ![t].seen = rrAlive[instanceIdx]]
    /\ UNCHANGED << kind, rrCurrent, rrAlive, wrrCurrent, wrrAlive, weights,
                    ewmaLatency, nanAs, mu, hc, started, sched,
                    drawn, harness >>

\* rr.instances[next].ServeHTTP returns.
RRServed(t) ==
    /\ kind = "rr" /\ req[t].pc = "forward"
    /\ req' = [req EXCEPT ![t] = ReqIdle]
    /\ UNCHANGED << kind, rrCurrent, rrAlive, wrrCurrent, wrrAlive, weights,
                    ewmaLatency, nanAs, mu, hc, started, sched,
                    drawn, harness >>

\* History kept for the calls in progress when alive flags become al: an
\* instance stays in dead only while its flag stays false.
StillDead(al) == [t \in Threads |-> [req[t] EXCEPT !.dead = @ \cap DeadIn(al)]]

\* ServeHTTP of either balancer on an error of next():
\* w.WriteHeader(http.StatusServiceUnavailable) and return.
Unavailable(t) ==
    /\ req[t].pc = "unavailable"
    /\ req' = [req EXCEPT ![t] = ReqIdle]
    /\ UNCHANGED << kind, rrCurrent, rrAlive, wrrCurrent, wrrAlive, weights,
                    ewmaLatency, nanAs, mu, hc, started, sched,
                    drawn, harness >>

(*************************** LoadBalancerServer ***************************)
\* Start(): context.WithCancel, then RunHealthCheck issues the go statement.
Start ==
    /\ sched.pc = "off"
    /\ sched' = [sched EXCEPT !.pc = "spawned", !.ctx = "live"]
    /\ UNCHANGED << kind, rrCurrent, rrAlive, wrrCurrent, wrrAlive, weights,
                    ewmaLatency, nanAs, mu, req, hc, started, drawn, harness >>

\* The goroutine begins: time.NewTicker, defer ticker.Stop(), and the
\* first select.
NewTicker ==
    /\ sched.pc = "spawned"
    /\ sched' = [sched EXCEPT !.pc = "select", !.ticker = "running"]
    /\ UNCHANGED << kind, rrCurrent, rrAlive, wrrCurrent, wrrAlive, weights,
                    ewmaLatency, nanAs, mu, req, hc, started, drawn, harness >>

\* The interval elapses: the ticker puts a tick in ticker.C, which holds
\* one (a tick that finds the channel full is dropped).
TimerFires ==
    /\ sched.ticker = "running"
    /\ ~sched.tick
    /\ hc.sweeps < MaxSweeps
    /\ sched' = [sched EXCEPT !.tick = TRUE]
    /\ UNCHANGED << kind, rrCurrent, rrAlive, wrrCurrent, wrrAlive, weights,
                    ewmaLatency, nanAs, mu, req, hc, started, drawn, harness >>

\* Close(): h.stopHealthCheck() cancels the context.
Close ==
    /\ sched.ctx = "live"
    /\ sched' = [sched EXCEPT !.ctx = "cancelled"]
    /\ UNCHANGED << kind, rrCurrent, rrAlive, wrrCurrent, wrrAlive, weights,
                    ewmaLatency, nanAs, mu, req, hc, started, drawn, harness >>

\* Mutant: the tick case starts the sweep with a go statement, so the loop
\* is back at the select while the sweep runs.
AtSelectOrSweeping(s) == s.pc \in { "select", "sweep" }

\* The scheduler goroutine is blocked in the select.
AtSelect(s) == s.pc = "select"

\* Mutant: the select has no ctx.Done() case.
DoneNever(s) == FALSE

\* case <-ctx.Done() is ready.
Done(s) == s.ctx = "cancelled"

\* The select takes case <-ticker.C and calls healthCheckFunc().  When
\* ctx.Done() is ready as well the select may still take this case.
TickCase == [sched EXCEPT !.pc = "sweep", !.tick = FALSE, !.running = @ + 1,
                          !.late = @ \/ Done(sched)]

\* healthCheckFunc() returns to the loop.
BackAtSelect == [sched EXCEPT !.pc = "select", !.running = @ - 1]

\* The select takes case <-ctx.Done(): return, and the deferred
\* ticker.Stop().
DoneCase ==
    /\ AtSelect(sched)
    /\ Done(sched)
    /\ sched' = [sched EXCEPT !.pc = "done", !.ticker = "stopped"]
    /\ UNCHANGED << kind, rrCurrent, rrAlive, wrrCurrent, wrrAlive, weights,
                    ewmaLatency, nanAs, mu, req, hc, started, drawn, harness >>

(********************* WeightedRoundRobin.HealthCheck *********************)
\* What a tick finds: wrr.weights, the alive flags, and whether a latency
\* estimate has changed since the tick before.
Previous == [weights |-> weights, alive |-> wrrAlive, quiet |-> hc.quiet]

\* The tick case: HealthCheck() calls wrr.mu.Lock(), which shuts new readers out
\* and has the lock at once when no reader holds it.
WHCLock ==
    /\ kind = "wrr"
    /\ AtSelect(sched) /\ sched.tick
    /\ sched' = TickCase
    /\ IF mu.readers = {}
       THEN /\ mu' = [mu EXCEPT !.writer = TRUE]
            /\ hc' = [hc EXCEPT !.pc = "probe", !.i = 0, !.sweeps = @ + 1,
                                !.quiet = TRUE, !.prev = Previous,
                                !.probed = NotProbed]
       ELSE /\ mu' = [mu EXCEPT !.waiting = TRUE]
            /\ hc' = [hc EXCEPT !.pc = "lock", !.sweeps = @ + 1, !.quiet = TRUE,
                                !.prev = Previous, !.probed = NotProbed]
    /\ UNCHANGED << kind, rrCurrent, rrAlive, wrrCurrent, wrrAlive, weights,
                    ewmaLatency, nanAs, req, started, drawn, harness >>

\* Lock() returns once the last reader has left.
WHCAcquire ==
    /\ kind = "wrr" /\ hc.pc = "lock"
    /\ mu.readers = {}
    /\ mu' = [mu EXCEPT !.writer = TRUE, !.waiting = FALSE]
    /\ hc' = [hc EXCEPT !.pc = "probe", !.i = 0]
    /\ UNCHANGED << kind, rrCurrent, rrAlive, wrrCurrent, wrrAlive, weights,
                    ewmaLatency, nanAs, req, started, sched,
                    drawn, harness >>

\* alive := i.CheckAliveness(); i.SetAlive(alive), for instance hc.i: the
\* dial succeeds (alive) or fails.
WHCProbe(alive) ==
    /\ kind = "wrr" /\ hc.pc = "probe"
    /\ wrrAlive' = SetAlive(wrrAlive, hc.i, alive)
    /\ req' = StillDead(wrrAlive')
    /\ hc' = IF hc.i + 1 < Length(wrrAlive)
             THEN [hc EXCEPT !.i = @ + 1, !.probed[hc.i] = Probed(alive)]
             ELSE [hc EXCEPT !.pc = "score", !.i = 0,
                             !.scores = [j \in DOMAIN wrrAlive |-> 0],
                             !.probed[hc.i] = Probed(alive)]
    /\ UNCHANGED << kind, rrCurrent, rrAlive, wrrCurrent, weights, ewmaLatency,
                    nanAs, mu, started, sched,
                    drawn, harness >>

\* weights[i] = 0 for a dead instance, 1 / instance.GetEWMALatency() for an
\* alive one, for instance hc.i.
WHCScore ==
    /\ kind = "wrr" /\ hc.pc = "score"
    /\ hc' = [hc EXCEPT
                !.scores[hc.i] = IF ~IsAlive(wrrAlive, hc.i) THEN 0 ELSE ewmaLatency[hc.i],
                !.i = @ + 1,
                !.pc = IF hc.i + 1 < Length(wrrAlive) THEN "score" ELSE "scale"]
    /\ UNCHANGED << kind, rrCurrent, rrAlive, wrrCurrent, wrrAlive, weights,
                    ewmaLatency, nanAs, mu, req, started, sched,
                    drawn, harness >>

\* Mutant: the table patched entry by entry towards the new values.
ReplacedPatched(scaledWeights) ==
    [i \in DOMAIN scaledWeights |->
        IF i \in DOMAIN weights
        THEN (weights[i] + scaledWeights[i]) \div 2
        ELSE scaledWeights[i]]

\* wrr.weights = scaledWeights: the table is replaced whole.
Replaced(scaledWeights) == scaledWeights

\* wrr.weights = scaledWeights, and the deferred wrr.mu.Unlock().
WHCReplace ==
    /\ kind = "wrr" /\ hc.pc = "scale"
    /\ weights' = Replaced(ScaledWeights(hc.scores, nanAs))
    /\ mu' = [mu EXCEPT !.writer = FALSE]
    /\ hc' = [hc EXCEPT !.pc = "idle", !.i = 0]
    /\ sched' = BackAtSelect
    /\ UNCHANGED << kind, rrCurrent, rrAlive, wrrCurrent, wrrAlive, ewmaLatency,
                    nanAs, req, started, drawn, harness >>

(************************* RoundRobin.HealthCheck *************************)
\* The tick case: HealthCheck() starts on the first instance.
RHCTick ==
    /\ kind = "rr"
    /\ AtSelect(sched) /\ sched.tick
    /\ sched' = TickCase
    /\ hc' = [hc EXCEPT !.pc = "probe", !.i = 0, !.sweeps = @ + 1,
                        !.probed = NotProbed]
    /\ UNCHANGED << kind, rrCurrent, rrAlive, wrrCurrent, wrrAlive, weights,
                    ewmaLatency, nanAs, mu, req, started, drawn, harness >>

\* alive := instance.CheckAliveness(); instance.SetAlive(alive), for
\* instance hc.i; after the last one the sweep logs and returns.
RHCProbe(alive) ==
    /\ kind = "rr" /\ hc.pc = "probe"
    /\ rrAlive' = SetAlive(rrAlive, hc.i, alive)
    /\ req' = StillDead(rrAlive')
    /\ hc' = IF hc.i + 1 < Length(rrAlive)
             THEN [hc EXCEPT !.i = @ + 1, !.probed[hc.i] = Probed(alive)]
             ELSE [hc EXCEPT !.pc = "idle", !.i = 0, !.probed[hc.i] = Probed(alive)]
    /\ sched' = IF hc.i + 1 < Length(rrAlive) THEN sched ELSE BackAtSelect
    /\ UNCHANGED << kind, rrCurrent, wrrCurrent, wrrAlive, weights, ewmaLatency,
                    nanAs, mu, started, drawn, harness >>

Next ==
    \/ \E t \in Threads : Arrive(t)
    \/ \E t \in Threads : WRRLock(t)
    \/ \E t \in Threads : WRRAdd(t)
    \/ \E t \in Threads : WRRTest(t)
    \/ \E t \in Threads : WRRUnlock(t)
    \/ \E t \in Threads : \E newLatency \in LatencySamples : WRRServed(t, newLatency)
    \/ \E t \in Threads : RRStart(t)
    \/ \E t \in Threads : RRAdd(t)
    \/ \E t \in Threads : RRTest(t)
    \/ \E t \in Threads : RRServed(t)
    \/ \E t \in Threads : Unavailable(t)
    \/ Start
    \/ NewTicker
    \/ TimerFires
    \/ WHCLock
    \/ WHCAcquire
    \/ \E alive \in BOOLEAN : WHCProbe(alive)
    \/ WHCScore
    \/ WHCReplace
    \/ RHCTick
    \/ \E alive \in BOOLEAN : RHCProbe(alive)

Spec == Init /\ [][Next]_vars

(***************************************************************************)
(* SpecSched: the life of the health-check scheduler, Start() to Close(),  *)
(* with sweeps of either balancer and a request alongside.                 *)
(***************************************************************************)
\* Requests accepted in one run of SpecSched.
MaxSchedRequests == 1

SchedNext ==
    \/ Start
    \/ NewTicker
    \/ TimerFires
    \/ Close
    \/ DoneCase
    \/ \E t \in Threads : started < MaxSchedRequests /\ Arrive(t)
    \/ \E t \in Threads : WRRLock(t)
    \/ \E t \in Threads : WRRAdd(t)
    \/ \E t \in Threads : WRRTest(t)
    \/ \E t \in Threads : WRRUnlock(t)
    \/ \E t \in Threads : \E newLatency \in LatencySamples : WRRServed(t, newLatency)
    \/ \E t \in Threads : RRStart(t)
    \/ \E t \in Threads : RRAdd(t)
    \/ \E t \in Threads : RRTest(t)
    \/ \E t \in Threads : RRServed(t)
    \/ \E t \in Threads : Unavailable(t)
    \/ WHCLock
    \/ WHCAcquire
    \/ \E alive \in BOOLEAN : WHCProbe(alive)
    \/ WHCScore
    \/ WHCReplace
    \/ RHCTick
    \/ \E alive \in BOOLEAN : RHCProbe(alive)

\* The step of WHCReplace, whatever table it stores: enabled when
\* WHCReplace is, and taken whenever WHCReplace is taken.
ReplaceStep ==
    /\ kind = "wrr" /\ hc.pc = "scale"
    /\ weights' \in [DOMAIN hc.scores -> 0 .. MaxWeight]
    /\ mu' = [mu EXCEPT !.writer = FALSE]
    /\ hc' = [hc EXCEPT !.pc = "idle", !.i = 0]
    /\ sched' = BackAtSelect
    /\ UNCHANGED << kind, rrCurrent, rrAlive, wrrCurrent, wrrAlive, ewmaLatency,
                    nanAs, req, started, drawn, harness >>

\* A step of the scheduler goroutine other than taking a tick.
SchedStep ==
    \/ NewTicker
    \/ DoneCase
    \/ WHCAcquire
    \/ \E alive \in BOOLEAN : WHCProbe(alive)
    \/ WHCScore
    \/ ReplaceStep
    \/ \E alive \in BOOLEAN : RHCProbe(alive)

\* A step of request goroutine t inside the locked section of next().
NextStep(t) == WRRAdd(t) \/ WRRTest(t) \/ WRRUnlock(t)

\* The Go scheduler runs every goroutine that can run; a probe ends by its
\* dial timeout; a select whose ctx.Done() case stays ready takes it in the
\* end.  Nothing obliges the timer to fire, main() to call Close() or a
\* request to arrive.
SchedFairness ==
    /\ WF_vars(SchedStep)
    /\ \A t \in Threads : WF_vars(NextStep(t))

SpecSched == Init /\ [][SchedNext]_vars /\ SchedFairness

(***************************************************************************)
(* SpecOneByOne: the weighted balancer used by one goroutine at a time:    *)
(* HealthCheck() sweeps, next() calls and SetEWMALatency() calls, each run *)
(* to its end before the next begins.                                      *)
(***************************************************************************)
\* Cursor values a run starts from: the constructor's 0 and, after earlier
\* calls, a value close to the wrap.
OneByOneStarts == { ToU32(0), << Half - 1, Half - 3 >> }

OneByOneInit ==
    /\ kind = "wrr"
    /\ wrrCurrent \in OneByOneStarts
    /\ rrCurrent = ToU32(0)
    /\ rrAlive = [i \in Instances |-> TRUE]
    /\ wrrAlive = [i \in Instances |-> TRUE]
    /\ weights = << >>
    /\ ewmaLatency = [i \in Instances |-> InitialLatency]
    /\ nanAs \in NaNToUint16
    /\ mu = [readers |-> {}, writer |-> FALSE, waiting |-> FALSE]
    /\ req = [t \in Threads |-> ReqIdle]
    /\ hc = HcIdle
    /\ sched = SchedOff
    /\ started = 0
    /\ drawn = NoneDrawn(wrrCurrent)
    /\ seq = [calls |-> 0, rr |-> << >>, wrr |-> << >>]
    /\ AccIdle
    /\ ewmaCalls = LatIdle
    /\ aliveMu = AliveMuFree
    /\ server = ServerNew

\* The scores of HealthCheck(): 0 for a dead instance, else 1 / latency
\* (kept as the latency).
Scores(al, latency) == [i \in DOMAIN al |-> IF ~IsAlive(al, i) THEN 0 ELSE latency[i]]

\* One HealthCheck() sweep whose probes return alive; seq.wrr keeps the
\* calls made since.
HealthCheck(alive) ==
    /\ hc.sweeps < MaxSweeps
    /\ wrrAlive' = alive
    /\ weights' = ScaledWeights(Scores(alive, ewmaLatency), nanAs)
    /\ hc' = [hc EXCEPT !.sweeps = @ + 1,
                        !.probed = [i \in Instances |-> Probed(alive[i])]]
    /\ seq' = [seq EXCEPT !.wrr = << >>]
    /\ UNCHANGED << kind, rrCurrent, rrAlive, wrrCurrent, ewmaLatency, nanAs, mu,
                    req, sched, started, drawn, acc, ewmaCalls, aliveMu, server >>

\* One WeightedRoundRobin.next() call.
OneNext ==
    /\ seq.calls < MaxCalls
    /\ LET w == WRRNext(wrrCurrent, weights, wrrAlive)
       IN  /\ wrrCurrent' = w.current
           /\ seq' = [seq EXCEPT !.calls = @ + 1,
                                 !.wrr = Append(@, [start |-> wrrCurrent, res |-> w])]
    /\ UNCHANGED << kind, rrCurrent, rrAlive, wrrAlive, weights, ewmaLatency, nanAs,
                    mu, req, hc, sched, started, drawn, acc, ewmaCalls, aliveMu, server >>

\* One SetEWMALatency(newLatency) call on instance idx.
OneSetEWMALatency(idx, newLatency) ==
    /\ started < MaxRequests
    /\ started' = started + 1
    /\ ewmaLatency' = SetEWMALatency(ewmaLatency, idx, newLatency)
    /\ UNCHANGED << kind, rrCurrent, rrAlive, wrrCurrent, wrrAlive, weights, nanAs,
                    mu, req, hc, sched, drawn, seq, acc, ewmaCalls, aliveMu, server >>

OneByOneNext ==
    \/ \E alive \in [Instances -> BOOLEAN] : HealthCheck(alive)
    \/ OneNext
    \/ \E idx \in Instances : \E newLatency \in LatencySamples :
           OneSetEWMALatency(idx, newLatency)

SpecOneByOne == OneByOneInit /\ [][OneByOneNext]_vars

\* The n cursor values after start do not pass 2^32 - 1.
C28_NoWrap(start, n) == ~(start[1] = Half - 1 /\ start[2] + n > Half - 1)

\* C28: after a HealthCheck() sweep that leaves an instance alive, some
\* alive instance holds the weight MaxWeight, and every
\* WeightedRoundRobin.next() call made on its own, whose N cursor values do
\* not wrap past 2^32, returns the index of an alive instance within N
\* attempts.
C28_AliveMeansSelected ==
    (hc.sweeps >= 1 /\ \E i \in Instances : wrrAlive[i]) =>
        /\ \E i \in Instances : wrrAlive[i] /\ weights[i] = MaxWeight
        /\ \A k \in 1 .. Len(seq.wrr) :
               C28_NoWrap(seq.wrr[k].start, Length(weights)) =>
                   /\ seq.wrr[k].res.err = ErrNone
                   /\ wrrAlive[seq.wrr[k].res.idx]
                   /\ Len(seq.wrr[k].res.draws) \in 1 .. Length(weights)

\* After a sweep that found both instances alive, one of them with a
\* smaller weight, a call had its draw on that instance rejected and
\* returned the other.
C28_Witness ==
    /\ hc.sweeps >= 1
    /\ \A i \in Instances : wrrAlive[i]
    /\ \E i \in Instances : weights[i] > 0 /\ weights[i] < MaxWeight
    /\ \E k \in 1 .. Len(seq.wrr) :
           /\ seq.wrr[k].res.err = ErrNone
           /\ Len(seq.wrr[k].res.draws) = 2
           /\ weights[seq.wrr[k].res.idx] = MaxWeight

(***************************************************************************)
(* SpecQuiet: the RoundRobin program with selection calls and sweeps kept  *)
(* apart: a sweep begins only while no request is in progress, a request   *)
(* arrives only between sweeps.  The request goroutines still interleave.  *)
(***************************************************************************)
QuietInit == Init /\ kind = "rr"

\* No request goroutine is in ServeHTTP.
NoRequest == \A t \in Threads : req[t].pc = "idle"

QuietNext ==
    \/ Start
    \/ NewTicker
    \/ TimerFires
    \/ NoRequest /\ RHCTick
    \/ \E alive \in BOOLEAN : RHCProbe(alive)
    \/ \E t \in Threads : hc.pc = "idle" /\ Arrive(t)
    \/ \E t \in Threads : RRStart(t)
    \/ \E t \in Threads : RRAdd(t)
    \/ \E t \in Threads : RRTest(t)
    \/ \E t \in Threads : RRServed(t)
    \/ \E t \in Threads : Unavailable(t)

SpecQuiet == QuietInit /\ [][QuietNext]_vars

(***************************************************************************)
(* SpecLocks: the weighted balancer with every lock operation a step of    *)
(* its own: wrr.mu, the lock on each instance's alive flag and the lock on *)
(* each instance's latency estimate.  Where Spec takes IsAlive(),          *)
(* SetAlive(), GetEWMALatency() and SetEWMALatency() as one step each,     *)
(* here a goroutine can wait for each of their locks.                      *)
(***************************************************************************)
\* Requests accepted and ticks of the timer in one run of SpecLocks.
MaxLockRequests == 2
MaxLockSweeps == 2

LocksInit == Init /\ kind = "wrr"

\* The weight test of an attempt; a draw that passes it calls IsAlive(),
\* whose i.mu.RLock() waits while a writer holds the flag's lock.
IsAliveRLock(t) ==
    /\ kind = "wrr" /\ req[t].pc = "test"
    /\ LET instanceIdx == InstanceIdx(req[t].next, req[t].length)
           weight == weights[instanceIdx]
           round == Round(req[t].next, req[t].length)
       IN  IF Rejected(weight, round)
           THEN /\ req' = [req EXCEPT ![t].pc = "add", ![t].i = @ + 1]
                /\ UNCHANGED aliveMu
           ELSE /\ ~aliveMu[instanceIdx].writer
                /\ aliveMu' = [aliveMu EXCEPT ![instanceIdx].readers = @ \cup { t }]
                /\ req' = [req EXCEPT ![t].pc = "isalive"]
    /\ UNCHANGED << kind, rrCurrent, rrAlive, wrrCurrent, wrrAlive, weights,
                    ewmaLatency, nanAs, mu, hc, started, sched,
                    drawn, seq, acc, ewmaCalls, server >>

\* alive = i.alive; i.mu.RUnlock(); the IsAlive test of the attempt.
IsAliveRUnlock(t) ==
    /\ kind = "wrr" /\ req[t].pc = "isalive"
    /\ LET instanceIdx == InstanceIdx(req[t].next, req[t].length)
       IN  /\ aliveMu' = [aliveMu EXCEPT ![instanceIdx].readers = @ \ { t }]
           /\ req' = IF ~IsAlive(wrrAlive, instanceIdx)
                     THEN [req EXCEPT ![t].pc = "add", ![t].i = @ + 1,
                                      ![t].seen = wrrAlive[instanceIdx]]
                     ELSE [req EXCEPT ![t].pc = "unlock", ![t].idx = instanceIdx,
                                      ![t].err = ErrNone,
                                      ![t].seen = wrrAlive[instanceIdx]]
    /\ UNCHANGED << kind, rrCurrent, rrAlive, wrrCurrent, wrrAlive, weights,
                    ewmaLatency, nanAs, mu, hc, started, sched,
                    drawn, seq, acc, ewmaCalls, server >>

\* wrr.instances[next].ServeHTTP returns after newLatency ns and ServeHTTP
\* calls SetEWMALatency(responseTime).
Forwarded(t, newLatency) ==
    /\ kind = "wrr" /\ req[t].pc = "forward"
    /\ req' = [req EXCEPT ![t].pc = "set"]
    /\ ewmaCalls' = [ewmaCalls EXCEPT !.call[t] =
                        [pc |-> "lock", idx |-> req[t].idx,
                         newLatency |-> newLatency, old |-> 0]]
    /\ UNCHANGED << kind, rrCurrent, rrAlive, wrrCurrent, wrrAlive, weights,
                    ewmaLatency, nanAs, mu, hc, started, sched,
                    drawn, seq, acc, aliveMu, server >>

\* SetEWMALatency has returned: ServeHTTP logs and returns.
SetReturned(t) ==
    /\ req[t].pc = "set" /\ ewmaCalls.call[t].pc = "idle"
    /\ req' = [req EXCEPT ![t] = ReqIdle]
    /\ UNCHANGED << kind, rrCurrent, rrAlive, wrrCurrent, wrrAlive, weights,
                    ewmaLatency, nanAs, mu, hc, started, sched,
                    drawn, harness >>

\* alive := i.CheckAliveness() for instance hc.i: the dial succeeds or
\* fails; i.SetAlive(alive) is called.
CheckAliveness(alive) ==
    /\ kind = "wrr" /\ hc.pc = "probe"
    /\ hc' = [hc EXCEPT !.pc = "setalive", !.probed[hc.i] = Probed(alive)]
    /\ UNCHANGED << kind, rrCurrent, rrAlive, wrrCurrent, wrrAlive, weights,
                    ewmaLatency, nanAs, mu, req, started, sched,
                    drawn, harness >>

\* i.mu.Lock() in SetAlive returns: no goroutine holds the flag's lock.
SetAliveLock ==
    /\ kind = "wrr" /\ hc.pc = "setalive"
    /\ aliveMu[hc.i].readers = {} /\ ~aliveMu[hc.i].writer
    /\ aliveMu' = [aliveMu EXCEPT ![hc.i].writer = TRUE]
    /\ hc' = [hc EXCEPT !.pc = "setalive.locked"]
    /\ UNCHANGED << kind, rrCurrent, rrAlive, wrrCurrent, wrrAlive, weights,
                    ewmaLatency, nanAs, mu, req, started, sched,
                    drawn, seq, acc, ewmaCalls, server >>

\* i.alive = alive; i.mu.Unlock(); the next instance, or the scores.
SetAliveUnlock ==
    /\ kind = "wrr" /\ hc.pc = "setalive.locked"
    /\ wrrAlive' = SetAlive(wrrAlive, hc.i, hc.probed[hc.i] = "alive")
    /\ req' = StillDead(wrrAlive')
    /\ aliveMu' = [aliveMu EXCEPT ![hc.i].writer = FALSE]
    /\ hc' = IF hc.i + 1 < Length(wrrAlive)
             THEN [hc EXCEPT !.pc = "probe", !.i = @ + 1]
             ELSE [hc EXCEPT !.pc = "score", !.i = 0,
                             !.scores = [j \in DOMAIN wrrAlive |-> 0]]
    /\ UNCHANGED << kind, rrCurrent, rrAlive, wrrCurrent, weights, ewmaLatency,
                    nanAs, mu, started, sched,
                    drawn, seq, acc, ewmaCalls, server >>

\* instance.IsAlive() of the score loop: i.mu.RLock().
ScoreIsAliveRLock ==
    /\ kind = "wrr" /\ hc.pc = "score"
    /\ ~aliveMu[hc.i].writer
    /\ aliveMu' = [aliveMu EXCEPT ![hc.i].readers = @ \cup { "hc" }]
    /\ hc' = [hc EXCEPT !.pc = "score.isalive"]
    /\ UNCHANGED << kind, rrCurrent, rrAlive, wrrCurrent, wrrAlive, weights,
                    ewmaLatency, nanAs, mu, req, started, sched,
                    drawn, seq, acc, ewmaCalls, server >>

\* alive = i.alive; i.mu.RUnlock(); weights[i] = 0 and continue for a dead
\* instance, else instance.GetEWMALatency() is called.
ScoreIsAliveRUnlock ==
    /\ kind = "wrr" /\ hc.pc = "score.isalive"
    /\ aliveMu' = [aliveMu EXCEPT ![hc.i].readers = @ \ { "hc" }]
    /\ hc' = IF IsAlive(wrrAlive, hc.i)
             THEN [hc EXCEPT !.pc = "score.get"]
             ELSE [hc EXCEPT !.scores[hc.i] = 0,
                             !.i = @ + 1,
                             !.pc = IF hc.i + 1 < Length(wrrAlive)
                                    THEN "score" ELSE "scale"]
    /\ UNCHANGED << kind, rrCurrent, rrAlive, wrrCurrent, wrrAlive, weights,
                    ewmaLatency, nanAs, mu, req, started, sched,
                    drawn, seq, acc, ewmaCalls, server >>

\* i.mu.RLock() in GetEWMALatency returns: no SetEWMALatency holds the
\* estimate's lock.  (No other goroutine calls GetEWMALatency.)
GetRLock ==
    /\ kind = "wrr" /\ hc.pc = "score.get"
    /\ MutexFree(ewmaCalls.mu[hc.i])
    /\ ewmaCalls' = [ewmaCalls EXCEPT !.mu[hc.i] = "hc"]
    /\ hc' = [hc EXCEPT !.pc = "score.got"]
    /\ UNCHANGED << kind, rrCurrent, rrAlive, wrrCurrent, wrrAlive, weights,
                    ewmaLatency, nanAs, mu, req, started, sched,
                    drawn, seq, acc, aliveMu, server >>

\* return i.ewmaLatency and the deferred i.mu.RUnlock(); weights[i] =
\* 1 / latency.
GetRUnlock ==
    /\ kind = "wrr" /\ hc.pc = "score.got"
    /\ ewmaCalls' = [ewmaCalls EXCEPT !.mu[hc.i] = "free"]
    /\ hc' = [hc EXCEPT !.scores[hc.i] = ewmaLatency[hc.i],
                        !.i = @ + 1,
                        !.pc = IF hc.i + 1 < Length(wrrAlive) THEN "score" ELSE "scale"]
    /\ UNCHANGED << kind, rrCurrent, rrAlive, wrrCurrent, wrrAlive, weights,
                    ewmaLatency, nanAs, mu, req, started, sched,
                    drawn, seq, acc, aliveMu, server >>

\* A step of request goroutine t from the call of next() to the answer,
\* the upstream's response apart.
RequestStep(t) ==
    \/ WRRLock(t)
    \/ WRRAdd(t)
    \/ IsAliveRLock(t)
    \/ IsAliveRUnlock(t)
    \/ WRRUnlock(t)
    \/ Unavailable(t)
    \/ SetLock(t)
    \/ SetRead(t)
    \/ SetWrite(t)
    \/ SetUnlock(t)
    \/ SetReturned(t)

\* A step of the health-check goroutine up to the table's replacement; the
\* probe's dial returns within its timeout.
SweepLockStep ==
    \/ NewTicker
    \/ WHCAcquire
    \/ \E alive \in BOOLEAN : CheckAliveness(alive)
    \/ SetAliveLock
    \/ SetAliveUnlock
    \/ ScoreIsAliveRLock
    \/ ScoreIsAliveRUnlock
    \/ GetRLock
    \/ GetRUnlock

\* A step of the health-check goroutine inside HealthCheck().
SweepStep == SweepLockStep \/ ReplaceStep

LocksNext ==
    \/ Start
    \/ hc.sweeps < MaxLockSweeps /\ TimerFires
    \/ WHCLock
    \/ WHCReplace
    \/ \E t \in Threads : started < MaxLockRequests /\ Arrive(t)
    \/ \E t \in Threads : \E newLatency \in LatencySamples : Forwarded(t, newLatency)
    \/ \E t \in Threads : RequestStep(t)
    \/ SweepLockStep

\* The Go scheduler runs every goroutine that can run, and a lock that is
\* free is given to a goroutine waiting for it.  Nothing obliges the timer
\* to fire, a request to arrive or the upstream to respond.
LocksFairness ==
    /\ WF_vars(SweepStep)
    /\ \A t \in Threads : WF_vars(RequestStep(t))

SpecLocks == LocksInit /\ [][LocksNext]_vars /\ LocksFairness

\* No goroutine waits for a lock or holds one: the health-check goroutine
\* is outside HealthCheck(), every request goroutine is outside ServeHTTP
\* or awaits the upstream's response.
C29_NoneWaiting ==
    /\ hc.pc = "idle"
    /\ \A t \in Threads :
           /\ req[t].pc \in { "idle", "forward" }
           /\ ewmaCalls.call[t].pc = "idle"
    /\ mu = [readers |-> {}, writer |-> FALSE, waiting |-> FALSE]
    /\ aliveMu = AliveMuFree
    /\ server = ServerNew
    /\ \A i \in Instances : MutexFree(ewmaCalls.mu[i])

\* C29: the weighted balancer does not deadlock.  Under every interleaving
\* of next() calls (wrr.mu read lock, then an alive flag's read lock),
\* SetEWMALatency() calls (a latency estimate's lock) and HealthCheck()
\* sweeps (wrr.mu write lock, then the instances' locks), every next() call
\* that has started returns, each probe returning, and no goroutine waits
\* for ever: once requests and ticks have ceased every lock is free again
\* and no goroutine is left inside next(), SetEWMALatency() or
\* HealthCheck().
C29_NoDeadlock ==
    /\ \A t \in Threads :
           (req[t].pc = "next") ~> (req[t].pc \in { "forward", "unavailable" })
    /\ <>[]C29_NoneWaiting

\* A sweep waits for wrr.mu behind a request that holds it for reading
\* together with an alive flag's lock, and a second request waits in
\* RLock() behind the sweep.
C29_Witness ==
    /\ hc.pc = "lock" /\ mu.waiting
    /\ req["g1"].pc = "isalive" /\ aliveMu[1].readers = { "g1" }
    /\ req["g2"].pc = "next"

(***************************************************************************)
(* SpecServer: LoadBalancerServer under any sequence of Start() and        *)
(* Close() calls by one caller, with the goroutines RunHealthCheck starts. *)
(* A sweep is the call of healthCheckFunc() and its return.                *)
(***************************************************************************)
ServerInit ==
    /\ rrCurrent = ToU32(0) /\ wrrCurrent = ToU32(0)
    /\ rrAlive = [i \in Instances |-> TRUE]
    /\ wrrAlive = [i \in Instances |-> TRUE]
    /\ weights = << >>
    /\ seq = [calls |-> 0, rr |-> << >>, wrr |-> << >>]
    /\ AccIdle
    /\ ProgramIdle

serverVars == << kind, rrCurrent, rrAlive, wrrCurrent, wrrAlive, weights,
                 ewmaLatency, nanAs, mu, req, hc, sched, started, drawn, seq, acc,
                 ewmaCalls, aliveMu >>

\* Start(): ctx, h.stopHealthCheck = context.WithCancel(...), whatever
\* h.stopHealthCheck held; RunHealthCheck issues the go statement.
ServerStart ==
    /\ server.starts < MaxStarts
    /\ LET k == server.starts + 1
       IN  server' = [server EXCEPT
                         !.starts = k,
                         !.stopHealthCheck = k,
                         !.goroutine[k] = [pc |-> "spawned", ctx |-> "live",
                                           tick |-> FALSE]]
    /\ UNCHANGED serverVars

\* Close(): if h.stopHealthCheck != nil, the context it cancels is
\* cancelled and h.stopHealthCheck = nil.
ServerClose ==
    /\ server.stopHealthCheck # 0
    /\ server' = [server EXCEPT
                     !.goroutine[server.stopHealthCheck].ctx = "cancelled",
                     !.stopHealthCheck = 0]
    /\ UNCHANGED serverVars

\* Goroutine k begins: time.NewTicker, defer ticker.Stop(), the select.
GoNewTicker(k) ==
    /\ server.goroutine[k].pc = "spawned"
    /\ server' = [server EXCEPT !.goroutine[k].pc = "select"]
    /\ UNCHANGED serverVars

\* The interval of goroutine k's ticker elapses; ticker.C holds one tick.
GoTimerFires(k) ==
    /\ server.goroutine[k].pc \in { "select", "sweep" }
    /\ ~server.goroutine[k].tick
    /\ server' = [server EXCEPT !.goroutine[k].tick = TRUE]
    /\ UNCHANGED serverVars

\* The select of goroutine k takes case <-ticker.C: healthCheckFunc().
GoTickCase(k) ==
    /\ server.goroutine[k].pc = "select"
    /\ server.goroutine[k].tick
    /\ server' = [server EXCEPT !.goroutine[k].pc = "sweep",
                                !.goroutine[k].tick = FALSE]
    /\ UNCHANGED serverVars

\* healthCheckFunc() returns to the loop of goroutine k.
GoSweepReturns(k) ==
    /\ server.goroutine[k].pc = "sweep"
    /\ server' = [server EXCEPT !.goroutine[k].pc = "select"]
    /\ UNCHANGED serverVars

\* The select of goroutine k takes case <-ctx.Done(): return, and the
\* deferred ticker.Stop().
GoDoneCase(k) ==
    /\ server.goroutine[k].pc = "select"
    /\ server.goroutine[k].ctx = "cancelled"
    /\ server' = [server EXCEPT !.goroutine[k].pc = "done",
                                !.goroutine[k].tick = FALSE]
    /\ UNCHANGED serverVars

ServerNext ==
    \/ ServerStart
    \/ ServerClose
    \/ \E k \in 1 .. MaxStarts : GoNewTicker(k)
    \/ \E k \in 1 .. MaxStarts : GoTimerFires(k)
    \/ \E k \in 1 .. MaxStarts : GoTickCase(k)
    \/ \E k \in 1 .. MaxStarts : GoSweepReturns(k)
    \/ \E k \in 1 .. MaxStarts : GoDoneCase(k)

\* The Go scheduler runs every goroutine that can run and healthCheckFunc()
\* returns; a select that finds ctx.Done() ready time and again takes that
\* case in the end (the choice among ready cases is uniformly random).
\* Nothing obliges the caller to call Start() or Close(), or a timer to
\* fire.
ServerFairness ==
    \A k \in 1 .. MaxStarts :
        /\ WF_vars(GoNewTicker(k))
        /\ WF_vars(GoSweepReturns(k))
        /\ SF_vars(GoDoneCase(k))

SpecServer == ServerInit /\ [][ServerNext]_vars /\ ServerFairness

\* The health-check goroutines that are live: started and not returned.
C30_Live ==
    { k \in 1 .. MaxStarts : server.goroutine[k].pc \in { "spawned", "select", "sweep" } }

\* C30: whatever sequence of Start() and Close() calls is made, at most one
\* health-check goroutine is live at any time, and once a Close() has been
\* the last call (stopHealthCheck is nil and stays so) every goroutine an
\* earlier Start() started terminates.
C30_OneSchedulerTask ==
    /\ [](Cardinality(C30_Live) <= 1)
    /\ (server.starts >= 1 /\ server.stopHealthCheck = 0) ~>
           (server.stopHealthCheck # 0 \/ C30_Live = {})

(***************************************************************************)
(* Claims on the program (Spec).                                           *)
(***************************************************************************)
\* C2: WeightedRoundRobin.next() never returns an index whose weight is 0,
\* at any cursor value and whatever that instance's alive flag: a draw on a
\* weight of 0 is always rejected by the weight test.  (A call that is
\* about to return still holds the read lock, so weights is the table it
\* drew on.)
C2_ZeroWeightNeverSelected ==
    \A t \in Threads :
        (kind = "wrr" /\ req[t].pc = "unlock" /\ req[t].err = ErrNone) =>
            weights[req[t].idx] # 0

\* C4: an index returned by next() of either balancer is an index of the
\* instance list whose alive flag the call read as true, and is not an
\* instance whose flag was false all through the call, whatever selection
\* calls and sweeps ran alongside.
C4_ReturnedIndexValid ==
    \A t \in Threads :
        (req[t].pc = "forward" \/ (req[t].pc = "unlock" /\ req[t].err = ErrNone)) =>
            /\ req[t].idx \in Instances
            /\ req[t].seen
            /\ req[t].idx \notin req[t].dead

\* A RoundRobin call that skipped a dead instance has returned an instance
\* which a sweep running alongside has since marked dead.
C4_Witness ==
    \E t \in Threads :
        /\ kind = "rr" /\ req[t].pc = "forward"
        /\ req[t].i >= 1
        /\ ~rrAlive[req[t].idx]
        /\ hc.pc = "probe"

\* A sweep of the weighted balancer has completed.
SweepDone == kind = "wrr" /\ hc.pc = "idle" /\ hc.sweeps >= 1

\* w is MaxWeight * lmin / lat rounded to the nearest integer, halves up.
C9_Nearest(w, lmin, lat) ==
    LET qr == MulDivMod(MaxWeight, lmin, lat)
    IN  \/ w = qr[1] /\ qr[2] < lat - qr[2]
        \/ w = qr[1] + 1 /\ qr[2] >= lat - qr[2]

\* C9: after a WeightedRoundRobin.HealthCheck() sweep that leaves an
\* instance alive, the weight table has one entry per instance, each within
\* 0 .. MaxWeight; a dead instance has weight 0; an alive instance i has
\* weight round(MaxWeight * Lmin / L_i), L_i the latency estimate the sweep
\* read (the estimate itself when no request was served meanwhile) and Lmin
\* the smallest among the alive; so the lowest-latency alive instance has
\* exactly MaxWeight.  Latencies [100, 100, 100] give equal weights and
\* [100, 50] give about MaxWeight / 2 and MaxWeight.
C9_WeightTableAfterSweep ==
    /\ (SweepDone /\ ~AllDead(wrrAlive)) =>
          /\ DOMAIN weights = DOMAIN wrrAlive
          /\ \A i \in DOMAIN weights :
                 /\ weights[i] \in 0 .. MaxWeight
                 /\ ~wrrAlive[i] => weights[i] = 0
                 /\ wrrAlive[i] =>
                       /\ hc.scores[i] > 0
                       /\ hc.quiet => hc.scores[i] = ewmaLatency[i]
                       /\ \E m \in DOMAIN weights :
                              /\ wrrAlive[m]
                              /\ \A j \in DOMAIN weights :
                                     wrrAlive[j] => hc.scores[m] <= hc.scores[j]
                              /\ weights[m] = MaxWeight
                              /\ C9_Nearest(weights[i], hc.scores[m], hc.scores[i])
    /\ (sched.pc = "off") =>
          /\ ScaledWeights(<< 100, 100, 100 >>, 0) = << MaxWeight, MaxWeight, MaxWeight >>
          /\ ScaledWeights(<< 100, 50 >>, 0) = << (MaxWeight + 1) \div 2, MaxWeight >>

\* A second sweep has completed on alive instances of different latency
\* estimates, one of them dead, and the weights differ.
C9_Witness ==
    /\ SweepDone /\ hc.sweeps = 2 /\ hc.quiet
    /\ \E i, j \in Instances :
           /\ wrrAlive[i] /\ wrrAlive[j]
           /\ ewmaLatency[i] < ewmaLatency[j]
           /\ weights[i] = MaxWeight
           /\ weights[j] \in 1 .. (MaxWeight - 1)

\* C10: when a HealthCheck() sweep finds every instance dead the weight
\* table has length N and every entry is 0, and every next() call after it
\* fails with "failed to find any alive instance".
C10_AllDeadSweepClears ==
    (SweepDone /\ AllDead(wrrAlive)) =>
        /\ Length(weights) = Length(wrrAlive)
        /\ \A i \in DOMAIN weights : weights[i] = 0
        /\ \A t \in Threads : req[t].pc = "unlock" => req[t].err = ErrNoAlive

\* C11: two consecutive WeightedRoundRobin.HealthCheck() sweeps whose probes
\* give the same results, with no latency estimate updated from the tick of
\* the first to the end of the second, leave the same weight table and the
\* same alive flags.
C11_HealthCheckIdempotent ==
    (/\ SweepDone /\ hc.sweeps >= 2
     /\ hc.quiet /\ hc.prev.quiet
     /\ wrrAlive = hc.prev.alive) =>
        weights = hc.prev.weights

\* Two such sweeps have run after a request changed a latency estimate, on
\* instances of different weights.
C11_Witness ==
    /\ SweepDone /\ hc.sweeps = 3
    /\ hc.quiet /\ hc.prev.quiet
    /\ wrrAlive = hc.prev.alive
    /\ \E i, j \in Instances :
           /\ wrrAlive[i] /\ wrrAlive[j]
           /\ weights[i] = MaxWeight
           /\ weights[j] \in 1 .. (MaxWeight - 1)
           /\ ewmaLatency[j] > InitialLatency

\* The request goroutines inside the locked section of
\* WeightedRoundRobin.next().
InNext == { t \in Threads : kind = "wrr" /\ req[t].pc \in { "add", "test", "unlock" } }

\* C12: a WeightedRoundRobin.next() call reads all its weights and alive
\* flags either from before a HealthCheck() sweep or from after it: from
\* taking the read lock to releasing it the weight table and the alive
\* flags are the ones the call began with, and no sweep is probing, scoring
\* or replacing the table.
C12_SweepAtomicForNext ==
    /\ InNext = mu.readers
    /\ \A t \in mu.readers :
           /\ weights = req[t].snap.weights
           /\ wrrAlive = req[t].snap.alive
           /\ hc.pc \in { "idle", "lock" }
           /\ ~mu.writer

\* A call on its second attempt or later holds the read lock on the table
\* of an earlier sweep while the next sweep waits for the lock.
C12_Witness ==
    \E t \in mu.readers :
        /\ req[t].pc = "test" /\ req[t].i >= 1
        /\ hc.pc = "lock" /\ hc.sweeps >= 2
        /\ \E i \in Instances : ~wrrAlive[i]

\* C13: while an aliveness probe of WeightedRoundRobin.HealthCheck() is in
\* progress the exclusive lock on the weight table is not held, so that a
\* selection call can take its read lock while a probe is pending.
C13_ProbesOutsideExclusiveSection ==
    (kind = "wrr" /\ hc.pc = "probe") => (~mu.writer /\ RLockFree(mu))

\* C17: in ServeHTTP of both balancers a request whose next() failed is
\* answered with service-unavailable: it is not forwarded and no latency
\* estimate changes; a request whose next() returned index i is forwarded
\* to instance i once and is then over, and (weighted) only the latency
\* estimate of instance i changes.
C17_Dispatch ==
    [][/\ \A t \in Threads :
              LET pc == req[t].pc
                  moved == req'[t].pc # pc
              IN  /\ (pc = "unlock" /\ moved) =>
                         /\ req'[t].pc = IF req[t].err = ErrNone
                                         THEN "forward" ELSE "unavailable"
                         /\ req'[t].idx = req[t].idx
                  /\ (moved /\ req'[t].pc = "forward") => req'[t].err = ErrNone
                  /\ (moved /\ req'[t].pc = "unavailable") => req'[t].err # ErrNone
                  /\ (pc = "unavailable" /\ moved) =>
                         /\ req'[t] = ReqIdle
                         /\ ewmaLatency' = ewmaLatency
                  /\ (pc = "forward" /\ moved) =>
                         /\ req'[t] = ReqIdle
                         /\ \A j \in Instances :
                                j # req[t].idx => ewmaLatency'[j] = ewmaLatency[j]
                         /\ kind = "rr" => ewmaLatency' = ewmaLatency
       /\ ewmaLatency' # ewmaLatency =>
              \E t \in Threads :
                  /\ kind = "wrr" /\ req[t].pc = "forward" /\ req'[t].pc = "idle"
                  /\ ewmaLatency'[req[t].idx] # ewmaLatency[req[t].idx]]_vars

\* One request is being forwarded while another, whose next() found no
\* alive instance after a sweep, is being answered service-unavailable.
C17_Witness ==
    \E t, u \in Threads :
        /\ kind = "wrr"
        /\ req[t].pc = "unavailable" /\ req[t].err = ErrNoAlive
        /\ req[u].pc = "forward"
        /\ ewmaLatency[req[u].idx] # InitialLatency

\* The cursor of the balancer main() built.
Current == IF kind = "rr" THEN rrCurrent ELSE wrrCurrent

\* C19: with next() calls running concurrently every attempt obtains a
\* cursor value that no other attempt obtains, and no increment is lost:
\* the cursor equals the initial cursor plus the number of attempts made by
\* all calls (modulo 2^32).
C19_DistinctCursorValues ==
    /\ Cardinality(drawn.vals) = drawn.n
    /\ Current = C18_Plus(drawn.init, drawn.n)
    /\ \A t \in Threads : req[t].pc = "test" => req[t].next \in drawn.vals
    /\ \A t, u \in Threads :
           (t # u /\ req[t].pc = "test" /\ req[u].pc = "test") =>
               req[t].next # req[u].next

\* Two calls are between their increment and their test at once, one of
\* them on a later attempt, with a third call's attempts before them.
C19_Witness ==
    \E t, u \in Threads :
        /\ t # u
        /\ req[t].pc = "test" /\ req[u].pc = "test"
        /\ req[t].i >= 1
        /\ drawn.n >= 4

\* Request goroutine t takes a step (dead, which the model keeps of a call
\* for the claims and a sweep prunes, is no part of the goroutine).
C22_Moves(t) ==
    [req[t] EXCEPT !.dead = {}] # [req'[t] EXCEPT !.dead = {}]

\* Request goroutine t is inside next() of its balancer.
C22_InNextCall(t) == req[t].pc \in { "next", "add", "test", "unlock" }

\* The data the balancers select by.
C22_Flags == << rrAlive, wrrAlive >>
C22_Table == << weights, ewmaLatency >>

\* C22: a step of next(), of either balancer, changes the cursor at most:
\* no alive flag, weight or latency estimate; SetEWMALatency changes the
\* estimate of its own instance and nothing else of the balancer; an alive
\* flag or the weight table changes only in a step of a HealthCheck() sweep.
C22_Frame ==
    [][ /\ \A t \in Threads :
               (C22_InNextCall(t) /\ C22_Moves(t)) =>
                   /\ C22_Flags' = C22_Flags
                   /\ C22_Table' = C22_Table
                   /\ (req[t].pc # "add") =>
                          (rrCurrent' = rrCurrent /\ wrrCurrent' = wrrCurrent)
        /\ (ewmaLatency' # ewmaLatency) =>
               /\ C22_Flags' = C22_Flags /\ weights' = weights
               /\ rrCurrent' = rrCurrent /\ wrrCurrent' = wrrCurrent
               /\ \E t \in Threads :
                      /\ kind = "wrr" /\ req[t].pc = "forward" /\ C22_Moves(t)
                      /\ \A i \in Instances :
                             (i # req[t].idx) => (ewmaLatency'[i] = ewmaLatency[i])
                      /\ \E newLatency \in LatencySamples :
                             ewmaLatency'[req[t].idx] =
                                 EWMA(ewmaLatency[req[t].idx], newLatency)
        /\ (C22_Flags' # C22_Flags \/ weights' # weights) =>
               /\ sched.pc = "sweep"
               /\ hc.pc \in { "probe", "scale" }
               /\ \A t \in Threads : ~C22_Moves(t)
               /\ ewmaLatency' = ewmaLatency
               /\ rrCurrent' = rrCurrent /\ wrrCurrent' = wrrCurrent
      ]_vars

\* A sweep has marked an instance dead and stored a table, a request has
\* drawn from the cursor and fed one instance's estimate, the other
\* instance's estimate being the initial one.
C22_Witness ==
    /\ kind = "wrr"
    /\ weights # << >>
    /\ \E i \in Instances : ~wrrAlive[i]
    /\ wrrCurrent # ToU32(0)
    /\ \E i, j \in Instances :
           /\ ewmaLatency[i] # InitialLatency
           /\ ewmaLatency[j] = InitialLatency

\* C25: with concurrent RoundRobin.next() calls and no sweep running, a
\* call returns "failed to find any alive instance" only if every instance
\* is dead: when an instance is alive all through the call, the call
\* returns an index.  (In SpecQuiet the flags do not change from the
\* arrival of a request to its answer.)
C25_FailureMeansNoneAlive ==
    \A t \in Threads :
        (kind = "rr" /\ req[t].pc = "unavailable" /\ req[t].err = ErrNoAlive) =>
            \A i \in Instances : ~rrAlive[i]

\* A RoundRobin.HealthCheck() sweep has set the flags of some instances and
\* not yet those of the others.
C26_HalfUpdated == kind = "rr" /\ hc.pc = "probe" /\ hc.i >= 1

\* C26: the flags a RoundRobin.HealthCheck() sweep sets become visible to
\* RoundRobin.next() all at once: no call reads an alive flag while the
\* sweep has set the flags of some instances and not yet of the others.
C26_SweepVisibleAtOnce ==
    [][\A t \in Threads :
           (kind = "rr" /\ req[t].pc = "test" /\ req'[t].pc # "test") =>
               ~C26_HalfUpdated
      ]_vars

\* No sweep of the weighted balancer has completed yet.
C27_BeforeFirstSweep ==
    kind = "wrr" /\ (hc.sweeps = 0 \/ (hc.sweeps = 1 /\ hc.pc # "idle"))

\* C27: from NewWeightedRoundRobin until the first HealthCheck() sweep has
\* completed the weight table is empty and the cursor is the constructor's
\* 0: every WeightedRoundRobin.next() call of that time returns "weight
\* list is empty" without drawing from the cursor, and no request is
\* forwarded, although every alive flag is true whenever such a call runs
\* (the flags are the constructor's until the first sweep holds the write
\* lock, and no call runs while it does).
C27_EmptyBeforeFirstSweep ==
    C27_BeforeFirstSweep =>
        /\ weights = << >>
        /\ wrrCurrent = ToU32(0)
        /\ drawn.n = 0
        /\ \A t \in Threads :
               /\ req[t].pc \in { "idle", "next", "unlock", "unavailable" }
               /\ (req[t].pc \in { "unlock", "unavailable" }) =>
                      req[t].err = ErrWeightEmpty
        /\ (mu.readers # {} \/ hc.pc \in { "idle", "lock" }) =>
               \A i \in Instances : wrrAlive[i]
        /\ (mu.readers # {}) => ~mu.writer

\* While the first sweep probes, and has found an instance dead, one request
\* has been refused for the empty table and another waits for the lock.
C27_Witness ==
    /\ C27_BeforeFirstSweep
    /\ hc.pc = "probe" /\ ~wrrAlive[0]
    /\ req["g1"].pc = "unavailable" /\ req["g1"].err = ErrWeightEmpty
    /\ req["g2"].pc = "next"

(***************************************************************************)
(* Claims on the scheduler (SpecSched).                                    *)
(***************************************************************************)
\* C14: two health-check sweeps of the balancer are never in progress at
\* once: the scheduler goroutine started by Start() is inside HealthCheck()
\* exactly while a sweep runs, and takes the next tick only back at its
\* select.
C14_SweepsNeverOverlap ==
    /\ sched.running \in { 0, 1 }
    /\ (sched.running = 1) = (sched.pc = "sweep")
    /\ (hc.pc # "idle") = (sched.pc = "sweep")

\* A tick is pending in ticker.C while a later sweep is still running.
C14_Witness ==
    /\ sched.pc = "sweep" /\ sched.tick
    /\ hc.sweeps >= 2 /\ hc.pc = "probe"

\* The alive flags of the balancer in use.
C23_Alive == IF kind = "rr" THEN rrAlive ELSE wrrAlive

\* C23: once the probe loop of a HealthCheck() sweep of either balancer has
\* ended, and until the next sweep begins, every instance has been probed
\* in the sweep and its alive flag is what its own probe returned, failed
\* probes of other instances notwithstanding; and a sweep that has begun
\* always completes.
C23_SweepRecordsProbes ==
    /\ [](((hc.sweeps >= 1 /\ hc.pc \in { "idle", "score", "scale" }) =>
              \A i \in Instances :
                  /\ hc.probed[i] # "not probed"
                  /\ C23_Alive[i] = (hc.probed[i] = "alive")))
    /\ [](\A i \in Instances :
              (hc.pc = "probe" /\ i < hc.i) =>
                  C23_Alive[i] = (hc.probed[i] = "alive"))
    /\ \A n \in 1 .. MaxSweeps :
           (sched.pc = "sweep" /\ hc.sweeps = n) ~>
               (sched.pc # "sweep" /\ hc.pc = "idle" /\ hc.sweeps = n)

\* A later sweep has completed in which the probe of the first instance
\* failed and the probe of the second, dead until then, succeeded.
C23_Witness ==
    /\ kind = "wrr"
    /\ hc.sweeps >= 2 /\ hc.pc = "idle"
    /\ hc.probed[0] = "dead" /\ hc.probed[1] = "alive"
    /\ ~hc.prev.alive[1]

\* C15: once Close() has cancelled the context no new HealthCheck() sweep
\* begins, also when a tick is pending at the moment of the cancellation.
C15_NoSweepAfterClose == ~sched.late

\* C16: after Start() and Close() the health-check goroutine terminates in
\* the end and its ticker is stopped.
C16_GoroutineTerminates ==
    (sched.ctx = "cancelled") ~> (sched.pc = "done" /\ sched.ticker = "stopped")

\* The goroutine has returned after Close(), having run a sweep that was
\* in progress or pending when the context was cancelled.
C16_Witness ==
    /\ sched.ctx = "cancelled" /\ sched.pc = "done" /\ sched.ticker = "stopped"
    /\ hc.sweeps >= 1 /\ hc.pc = "idle"

====
